---- MODULE Spec2Model ----
(***************************************************************************)
(* A model of the strategy signal aggregation and backtesting engine of    *)
(* the multimodal trading bot: strategies/base_strategy.py,                *)
(* strategies/futures_strategy.py, strategies/options_strategy.py,         *)
(* models/sentiment_analysis.py, models/chatgpt_integration.py,            *)
(* data/weather_data_fetcher.py, data/news_data_fetcher.py and             *)
(* utils/backtest.py.                                                      *)
(*                                                                         *)
(* Python floats are modelled as exact rationals [n, d] in lowest terms    *)
(* (d > 0), plus NaN (d = 0), with Python's comparison rules: every        *)
(* comparison with NaN is false.  Rounding error is not modelled.          *)
(* Python dicts are functions whose DOMAIN is the set of keys present.     *)
(***************************************************************************)
EXTENDS Integers, Sequences, FiniteSets, TLC

(***************************************************************************)
(* Numbers                                                                 *)
(***************************************************************************)
IAbs(x) == IF x < 0 THEN -x ELSE x

RECURSIVE GCD(_, _)
GCD(a, b) == IF b = 0 THEN a ELSE GCD(b, a % b)

\* The rational n/d (d > 0) in lowest terms.
Rat(n, d) ==
    LET g == GCD(IAbs(n), d)
    IN  [n |-> n \div g, d |-> d \div g]

NaN == [n |-> 0, d |-> 0]
IsNaN(a) == a.d = 0
IsNum(v) == DOMAIN v = {"n", "d"}

Zero == Rat(0, 1)
One == Rat(1, 1)
MinusOne == Rat(-1, 1)
OfInt(k) == Rat(k, 1)

\* a + b over the least common denominator, which keeps the integers small.
FAdd(a, b) ==
    IF IsNaN(a) \/ IsNaN(b) THEN NaN
    ELSE LET g == GCD(a.d, b.d)
         IN  Rat(a.n * (b.d \div g) + b.n * (a.d \div g), (a.d \div g) * b.d)
FNeg(a) == [n |-> -a.n, d |-> a.d]
FSub(a, b) == FAdd(a, FNeg(b))
FMul(a, b) == IF IsNaN(a) \/ IsNaN(b) THEN NaN ELSE Rat(a.n * b.n, a.d * b.d)
\* a / b for b # 0 (Python raises ZeroDivisionError for b = 0; callers guard it).
FDiv(a, b) ==
    IF IsNaN(a) \/ IsNaN(b) THEN NaN
    ELSE IF b.n > 0 THEN Rat(a.n * b.d, a.d * b.n)
    ELSE Rat(-(a.n * b.d), a.d * (-b.n))
FLt(a, b) == ~IsNaN(a) /\ ~IsNaN(b) /\ a.n * b.d < b.n * a.d
FGt(a, b) == FLt(b, a)
FLe(a, b) == ~IsNaN(a) /\ ~IsNaN(b) /\ a.n * b.d <= b.n * a.d
FGe(a, b) == FLe(b, a)
FAbs(a) == [n |-> IAbs(a.n), d |-> a.d]
\* Python's min(a, b) and max(a, b): the first argument unless the second wins.
PyMin(a, b) == IF FLt(b, a) THEN b ELSE a
PyMax(a, b) == IF FGt(b, a) THEN b ELSE a

ClampNone(x) == x
\* max(min(x, 1.0), -1.0)
Clamp(x) == PyMax(PyMin(x, One), MinusOne)

RECURSIVE SumSeq(_)
SumSeq(s) == IF s = <<>> THEN Zero ELSE FAdd(SumSeq(SubSeq(s, 1, Len(s) - 1)), s[Len(s)])

InUnit(x) == FLe(MinusOne, x) /\ FLe(x, One)
In01(x) == FLe(Zero, x) /\ FLe(x, One)

(***************************************************************************)
(* Dicts                                                                   *)
(***************************************************************************)
EmptyDict == [k \in {} |-> Zero]
Has(d, k) == k \in DOMAIN d
GetOr(d, k, default) == IF k \in DOMAIN d THEN d[k] ELSE default
Merge(f, g) == [k \in (DOMAIN f) \cup (DOMAIN g) |-> IF k \in DOMAIN g THEN g[k] ELSE f[k]]
\* A value that is not a number (a string such as "n/a" in a numeric field).
NotANumber == [str |-> "n/a"]

(***************************************************************************)
(* Call outcomes: a Python call either returns a value or raises.          *)
(***************************************************************************)
Ret(v) == [ok |-> TRUE, val |-> v, exc |-> "none"]
Raise(e) == [ok |-> FALSE, val |-> Zero, exc |-> e]
NoneVal == [none |-> TRUE]

(***************************************************************************)
(* BaseStrategy                                                            *)
(***************************************************************************)
RequiredFields == {"symbol", "price", "timestamp"}

ValidateNoTimestamp(market_data) == \A field \in {"symbol", "price"} : Has(market_data, field)
\* BaseStrategy._validate_market_data
ValidateMarketData(market_data) == \A field \in RequiredFields : Has(market_data, field)

RECURSIVE SumOver(_, _)
\* sum(d[k] for k in ks)
SumOver(d, ks) ==
    IF ks = {} THEN Zero
    ELSE LET k == CHOOSE x \in ks : TRUE
         IN  FAdd(d[k], SumOver(d, ks \ {k}))

\* sum(signals.values())
SumValues(signals) == SumOver(signals, DOMAIN signals)

ConfidenceNoCap(signals) ==
    IF DOMAIN signals = {} THEN Zero
    ELSE LET n == OfInt(Cardinality(DOMAIN signals))
             avg_signal == FDiv(SumValues(signals), n)
             sq == [k \in DOMAIN signals |->
                      FMul(FSub(signals[k], avg_signal), FSub(signals[k], avg_signal))]
         IN  FSub(One, FDiv(SumValues(sq), n))
\* BaseStrategy._calculate_confidence
CalculateConfidence(signals) ==
    IF DOMAIN signals = {} THEN Zero
    ELSE LET n == OfInt(Cardinality(DOMAIN signals))
             avg_signal == FDiv(SumValues(signals), n)
             sq == [k \in DOMAIN signals |->
                      FMul(FSub(signals[k], avg_signal), FSub(signals[k], avg_signal))]
             variance == FDiv(SumValues(sq), n)
         IN  FSub(One, PyMin(variance, One))

(***************************************************************************)
(* FuturesStrategy scorers                                                 *)
(***************************************************************************)
FuturesTechnicalGe(data) ==
    LET indicators == GetOr(data, "indicators", EmptyDict)
        s1 == IF Has(indicators, "rsi")
              THEN IF FGe(indicators["rsi"], OfInt(70)) THEN FSub(Zero, Rat(4, 10))
                   ELSE IF FLt(indicators["rsi"], OfInt(30)) THEN FAdd(Zero, Rat(4, 10))
                   ELSE Zero
              ELSE Zero
        s2 == IF Has(indicators, "macd")
              THEN IF FGt(indicators["macd"], Zero) THEN FAdd(s1, Rat(3, 10))
                   ELSE FSub(s1, Rat(3, 10))
              ELSE s1
        s3 == IF Has(indicators, "volume")
              THEN LET volume == indicators["volume"]
                       avg_volume == GetOr(data, "average_volume", volume)
                   IN  IF FGt(volume, FMul(avg_volume, Rat(15, 10)))
                       THEN FMul(s2, Rat(12, 10))
                       ELSE s2
              ELSE s2
    IN  Clamp(s3)
\* FuturesStrategy._analyze_technical_indicators
FuturesTechnical(data) ==
    LET indicators == GetOr(data, "indicators", EmptyDict)
        s1 == IF Has(indicators, "rsi")
              THEN IF FGt(indicators["rsi"], OfInt(70)) THEN FSub(Zero, Rat(4, 10))
                   ELSE IF FLt(indicators["rsi"], OfInt(30)) THEN FAdd(Zero, Rat(4, 10))
                   ELSE Zero
              ELSE Zero
        s2 == IF Has(indicators, "macd")
              THEN IF FGt(indicators["macd"], Zero) THEN FAdd(s1, Rat(3, 10))
                   ELSE FSub(s1, Rat(3, 10))
              ELSE s1
        s3 == IF Has(indicators, "volume")
              THEN LET volume == indicators["volume"]
                       avg_volume == GetOr(data, "average_volume", volume)
                   IN  IF FGt(volume, FMul(avg_volume, Rat(15, 10)))
                       THEN FMul(s2, Rat(12, 10))
                       ELSE s2
              ELSE s2
    IN  Clamp(s3)

\* The descriptions of the model whose lower-case form contains "rain".
ContainsRain(description) == description \in {"light rain", "Heavy Rain"}

\* _analyze_weather_data, the same code in FuturesStrategy and OptionsStrategy:
\* weather_data.get("weather", [{}])[0] raises IndexError on an empty list.
AnalyzeWeatherData(weather_data) ==
    LET main == GetOr(weather_data, "main", EmptyDict)
        weather == GetOr(weather_data, "weather", <<EmptyDict>>)
    IN  IF weather = <<>> THEN Raise("IndexError")
        ELSE LET s1 == IF Has(main, "temp") /\ main["temp"] # Zero /\ FLt(main["temp"], Zero)
                       THEN FSub(Zero, Rat(2, 10)) ELSE Zero
                 s2 == IF Has(weather[1], "description") /\ ContainsRain(weather[1]["description"])
                       THEN FSub(s1, Rat(3, 10)) ELSE s1
             IN  Ret(Clamp(s2))

\* FuturesStrategy._analyze_news_data
AnalyzeNewsData(news_data) ==
    LET articles == GetOr(news_data, "articles", <<>>)
        sentiments == [i \in 1..Len(articles) |-> GetOr(articles[i], "sentiment", Zero)]
        total == SumSeq(sentiments)
        score == IF articles # <<>> THEN FDiv(total, OfInt(Len(articles))) ELSE total
    IN  Clamp(score)

(***************************************************************************)
(* OptionsStrategy scorers                                                 *)
(***************************************************************************)
\* OptionsStrategy._analyze_options_metrics
AnalyzeOptionsMetrics(data) ==
    LET metrics == GetOr(data, "options_metrics", EmptyDict)
        s1 == IF Has(metrics, "iv")
              THEN LET iv_percentile == GetOr(metrics, "iv_percentile", OfInt(50))
                   IN  IF FGt(iv_percentile, OfInt(80)) THEN FSub(Zero, Rat(3, 10))
                       ELSE IF FLt(iv_percentile, OfInt(20)) THEN FAdd(Zero, Rat(3, 10))
                       ELSE Zero
              ELSE Zero
        s2 == IF Has(metrics, "put_call_ratio")
              THEN IF FGt(metrics["put_call_ratio"], Rat(15, 10)) THEN FSub(s1, Rat(4, 10))
                   ELSE IF FLt(metrics["put_call_ratio"], Rat(5, 10)) THEN FAdd(s1, Rat(4, 10))
                   ELSE s1
              ELSE s1
        s3 == IF Has(metrics, "open_interest")
              THEN LET oi == metrics["open_interest"]
                       avg_oi == GetOr(metrics, "average_oi", oi)
                   IN  IF FGt(oi, FMul(avg_oi, Rat(15, 10)))
                       THEN FMul(s2, Rat(12, 10))
                       ELSE s2
              ELSE s2
    IN  Clamp(s3)

\* OptionsStrategy._analyze_technical_indicators
OptionsTechnical(data) ==
    LET indicators == GetOr(data, "indicators", EmptyDict)
        s1 == IF Has(indicators, "rsi")
              THEN IF FGt(indicators["rsi"], OfInt(70)) THEN FSub(Zero, Rat(3, 10))
                   ELSE IF FLt(indicators["rsi"], OfInt(30)) THEN FAdd(Zero, Rat(3, 10))
                   ELSE Zero
              ELSE Zero
        s2 == IF Has(indicators, "macd")
              THEN IF FGt(indicators["macd"], Zero) THEN FAdd(s1, Rat(2, 10))
                   ELSE FSub(s1, Rat(2, 10))
              ELSE s1
        s3 == IF Has(indicators, "volatility")
              THEN LET volatility == indicators["volatility"]
                       avg_vol == GetOr(data, "average_volatility", volatility)
                   IN  IF FGt(volatility, FMul(avg_vol, Rat(13, 10)))
                       THEN FMul(s2, Rat(8, 10))
                       ELSE s2
              ELSE s2
    IN  Clamp(s3)

(***************************************************************************)
(* SentimentAnalyzer                                                       *)
(***************************************************************************)
\* SentimentAnalyzer._analyze_technical_sentiment
TechnicalSentiment(data) ==
    LET indicators == GetOr(data, "indicators", EmptyDict)
        s1 == IF Has(indicators, "rsi")
              THEN IF FGt(indicators["rsi"], OfInt(70)) THEN FSub(Zero, Rat(5, 10))
                   ELSE IF FLt(indicators["rsi"], OfInt(30)) THEN FAdd(Zero, Rat(5, 10))
                   ELSE Zero
              ELSE Zero
        s2 == IF Has(indicators, "volatility")
              THEN LET avg_price == GetOr(data, "price", Zero)
                   IN  IF FGt(avg_price, Zero)
                          /\ FGt(FDiv(indicators["volatility"], avg_price), Rat(2, 100))
                       THEN FMul(s1, Rat(8, 10))
                       ELSE s1
              ELSE s1
    IN  s2

OHLC == {"open", "close", "high", "low"}

\* SentimentAnalyzer._analyze_price_action: float(x) raises ValueError on a
\* string that is not a number.
PriceAction(data) ==
    IF \A k \in OHLC : Has(data, k)
    THEN IF \E k \in OHLC : ~IsNum(data[k]) THEN Raise("ValueError")
         ELSE LET s1 == IF FGt(data["close"], data["open"])
                        THEN FAdd(Zero, Rat(3, 10)) ELSE FSub(Zero, Rat(3, 10))
                  range_size == FSub(data["high"], data["low"])
                  s2 == IF FGt(range_size, Zero)
                        THEN FAdd(s1, FMul(FSub(FDiv(FSub(data["close"], data["low"]), range_size),
                                                Rat(5, 10)),
                                           Rat(4, 10)))
                        ELSE s1
              IN  Ret(s2)
    ELSE Ret(Zero)

\* SentimentAnalyzer._calculate_confidence
SentimentConfidence(data) ==
    LET c1 == IF Has(data, "metadata") /\ Has(data["metadata"], "data_quality")
              THEN FMul(Rat(5, 10), data["metadata"]["data_quality"])
              ELSE Rat(5, 10)
        indicators == GetOr(data, "indicators", EmptyDict)
        c2 == FAdd(c1, FDiv(FMul(Rat(1, 10), OfInt(Cardinality(DOMAIN indicators))), OfInt(5)))
    IN  PyMin(One, c2)

\* SentimentAnalyzer.analyze_sentiment: the except clause logs and re-raises.
AnalyzeSentiment(market_data) ==
    LET technical_score == TechnicalSentiment(market_data)
        price == PriceAction(market_data)
    IN  IF ~price.ok THEN Raise(price.exc)
        ELSE Ret([score |-> Clamp(FAdd(FMul(technical_score, Rat(6, 10)),
                                       FMul(price.val, Rat(4, 10)))),
                  confidence |-> SentimentConfidence(market_data)])

(***************************************************************************)
(* ChatGPTIntegration                                                      *)
(***************************************************************************)
\* ChatGPTIntegration._parse_sentiment.  An API response is modelled by what
\* the parser reads of it: kind "content" with the numbers of the first line
\* that mentions a score, or kind "malformed" (no choices: KeyError, caught).
ParseSentiment(api_response) ==
    IF api_response.kind = "content" /\ api_response.numbers # <<>>
    THEN Clamp(api_response.numbers[1])
    ELSE Zero

\* ChatGPTIntegration.analyze_sentiment_async: every exception of the request
\* (kind "error") is caught and gives 0.0.
AnalyzeSentimentAsync(api_response) ==
    IF api_response.kind = "error" THEN Zero ELSE ParseSentiment(api_response)

(***************************************************************************)
(* generate_signal: bounds and input sets                                  *)
(***************************************************************************)
MaxArticles == 2

Variants == {"futures", "options"}
\* A fetcher is the repository's (a plain def that returns a dict) or an
\* awaitable replacement (a coroutine function, as a test double supplies).
FetcherKinds == {"repo", "awaitable"}

Restrict(f, ks) == [k \in ks |-> f[k]]

BaseRecord == [symbol |-> "TEST", price |-> OfInt(100), timestamp |-> OfInt(1)]

IndicatorPacks ==
    { EmptyDict,
      [indicators |-> [rsi |-> OfInt(85)]],
      [indicators |-> [rsi |-> OfInt(50), macd |-> OfInt(-1)]],
      [indicators |-> [rsi |-> OfInt(30), macd |-> Zero, volume |-> OfInt(1000)]],
      [indicators |-> [rsi |-> OfInt(25), macd |-> One, volume |-> OfInt(3000),
                       volatility |-> OfInt(5)],
       average_volume |-> OfInt(1000), average_volatility |-> OfInt(2)] }

OptionsPacks ==
    { EmptyDict,
      [options_metrics |-> [implied_volatility |-> Rat(3, 10), put_call_ratio |-> Rat(8, 10),
                            open_interest |-> OfInt(10000)]],
      [options_metrics |-> [iv |-> Rat(3, 10), iv_percentile |-> OfInt(90),
                            put_call_ratio |-> OfInt(2), open_interest |-> OfInt(20000),
                            average_oi |-> OfInt(10000)]],
      [options_metrics |-> [iv |-> Rat(3, 10), iv_percentile |-> OfInt(10),
                            put_call_ratio |-> Rat(3, 10)]],
      [options_metrics |-> [iv_percentile |-> OfInt(90), put_call_ratio |-> OfInt(1)]] }

PricePacks ==
    { EmptyDict,
      [open |-> OfInt(99), close |-> OfInt(101), high |-> OfInt(102), low |-> OfInt(98)],
      [open |-> OfInt(101), close |-> OfInt(99), high |-> OfInt(101), low |-> OfInt(99),
       metadata |-> [data_quality |-> Rat(1, 2)]],
      [open |-> NotANumber, close |-> OfInt(101), high |-> OfInt(102), low |-> OfInt(98)] }

\* Records that have every required field and a price that is zero,
\* negative or NaN.
BadPriceRecords ==
    { [symbol |-> "TEST", price |-> p, timestamp |-> OfInt(1)] : p \in {Zero, OfInt(-5), NaN} }

MarketData ==
    { Merge(Merge(Merge(Restrict(BaseRecord, F), i), o), p) :
        F \in SUBSET RequiredFields, i \in IndicatorPacks, o \in OptionsPacks, p \in PricePacks }
    \cup BadPriceRecords

\* What the ChatGPT request gives: an exception (network error, timeout), a
\* response without choices, or a reply whose score line holds these numbers.
ChatResponses ==
    { [kind |-> "error", numbers |-> <<>>],
      [kind |-> "malformed", numbers |-> <<>>],
      [kind |-> "content", numbers |-> <<>>],
      [kind |-> "content", numbers |-> <<Rat(3, 10)>>],
      [kind |-> "content", numbers |-> <<OfInt(-5), One>>],
      [kind |-> "content", numbers |-> <<OfInt(7)>>] }

WeatherData ==
    { EmptyDict,
      [main |-> [temp |-> OfInt(-5)]],
      [main |-> [temp |-> OfInt(-5)], weather |-> <<[description |-> "light rain"]>>],
      [main |-> [temp |-> Zero], weather |-> <<[description |-> "Heavy Rain"]>>],
      [main |-> [temp |-> OfInt(10)], weather |-> <<[description |-> "clear sky"]>>],
      [main |-> [temp |-> OfInt(10)], weather |-> <<>>] }

Articles == { EmptyDict, [sentiment |-> OfInt(2)], [sentiment |-> Rat(-1, 2)], [sentiment |-> OfInt(-3)] }

NewsData ==
    { EmptyDict } \cup
    { [articles |-> a] : a \in UNION { [1..n -> Articles] : n \in 0..MaxArticles } }

\* An awaitable fetcher returns data or raises (a timeout, a network error).
AwaitableOutcomes(dataSet) == { Ret(d) : d \in dataSet } \cup { Raise("TimeoutError") }

(***************************************************************************)
(* generate_signal: state                                                  *)
(***************************************************************************)
VARIABLES
    variant,            \* which strategy class the instance is
    weather_fetcher,    \* kind of self.weather_fetcher.fetch_weather_data
    news_fetcher,       \* kind of self.news_fetcher.fetch_news_data
    market_data,        \* the argument of generate_signal
    pc,                 \* where generate_signal is: start, an await, returned, raised
    locals,             \* the scores computed so far (local variables)
    sentiment,          \* the SentimentResult (score, confidence), or NoneVal
    result,             \* the StrategyResult returned, or NoneVal
    exc,                \* the exception that left generate_signal, or "none"
    calls,              \* the providers called so far
    failed,             \* the providers whose call failed
    clock               \* datetime.now()

stratVars == <<variant, weather_fetcher, news_fetcher, market_data, pc, locals, sentiment,
               result, exc, calls, failed, clock>>

Providers == {"sentiment", "chatgpt", "weather", "news"}

StrategyResult(timestamp, symbol, signal, confidence, metadata) ==
    [timestamp |-> timestamp, symbol |-> symbol, signal |-> signal,
     confidence |-> confidence, metadata |-> metadata]

\* The metadata of the neutral result: FuturesStrategy passes none,
\* OptionsStrategy passes {"error": "Invalid market data"}.
InvalidMetadata(v) == IF v = "options" THEN [error |-> "Invalid market data"] ELSE NoneVal

AggregateSum(signals) == SumValues(signals)
\* sum(signals.values()) / len(signals)
AggregateSignal(signals) == FDiv(SumValues(signals), OfInt(Cardinality(DOMAIN signals)))

\* FuturesStrategy.generate_signal, "Combine signals"
FuturesSignals(data, l, sent) ==
    [sentiment |-> sent.score, chatgpt |-> l["chatgpt"], technical |-> FuturesTechnical(data),
     weather |-> l["weather"], news |-> l["news"]]
\* OptionsStrategy.generate_signal, "Calculate final signal"
OptionsSignals(l) ==
    [options |-> l["options"], technical |-> l["technical"], weather |-> l["weather"]]

FinalResult(now, data, signals, metadata) ==
    StrategyResult(now, data["symbol"], Clamp(AggregateSignal(signals)),
                   CalculateConfidence(signals), metadata)

StrategyInit ==
    /\ variant \in Variants
    /\ weather_fetcher \in FetcherKinds
    /\ news_fetcher \in FetcherKinds
    /\ market_data \in MarketData
    /\ pc = "start"
    /\ locals = EmptyDict
    /\ sentiment = NoneVal
    /\ result = NoneVal
    /\ exc = "none"
    /\ calls = {}
    /\ failed = {}
    /\ clock = 0

Returns(r) ==
    /\ pc' = "returned"
    /\ result' = r
    /\ exc' = "none"

Raises(e) ==
    /\ pc' = "raised"
    /\ exc' = e
    /\ result' = NoneVal

\* generate_signal up to its first await: the validation, and in
\* OptionsStrategy the two synchronous scorers.
Start ==
    /\ pc = "start"
    /\ clock' = clock + 1
    /\ UNCHANGED <<variant, weather_fetcher, news_fetcher, market_data, sentiment, calls, failed>>
    /\ IF ~ValidateMarketData(market_data)
       THEN /\ Returns(StrategyResult(clock, GetOr(market_data, "symbol", ""), Zero, Zero,
                                      InvalidMetadata(variant)))
            /\ UNCHANGED locals
       ELSE IF variant = "futures"
       THEN /\ pc' = "sentiment"
            /\ UNCHANGED <<locals, result, exc>>
       ELSE /\ pc' = "weather"
            /\ locals' = [options |-> AnalyzeOptionsMetrics(market_data),
                          technical |-> OptionsTechnical(market_data)]
            /\ UNCHANGED <<result, exc>>

\* sentiment = await self.sentiment_analyzer.analyze_sentiment(market_data)
CallSentiment ==
    /\ pc = "sentiment"
    /\ clock' = clock + 1
    /\ calls' = calls \cup {"sentiment"}
    /\ UNCHANGED <<variant, weather_fetcher, news_fetcher, market_data, locals>>
    /\ LET r == AnalyzeSentiment(market_data)
       IN  IF r.ok
           THEN /\ sentiment' = r.val
                /\ pc' = "chatgpt"
                /\ UNCHANGED <<result, exc, failed>>
           ELSE /\ Raises(r.exc)
                /\ failed' = failed \cup {"sentiment"}
                /\ UNCHANGED sentiment

\* chatgpt_score = await self.chatgpt.analyze_sentiment_async(market_data)
CallChatGPT ==
    /\ pc = "chatgpt"
    /\ clock' = clock + 1
    /\ calls' = calls \cup {"chatgpt"}
    /\ UNCHANGED <<variant, weather_fetcher, news_fetcher, market_data, sentiment, result, exc>>
    /\ \E api_response \in ChatResponses :
          /\ locals' = Merge(locals, [chatgpt |-> AnalyzeSentimentAsync(api_response)])
          /\ failed' = IF api_response.kind = "content" THEN failed ELSE failed \cup {"chatgpt"}
          /\ pc' = "weather"

\* What follows the weather score: OptionsStrategy combines and returns,
\* FuturesStrategy goes on to the news.
AfterWeather(score) ==
    LET l == Merge(locals, [weather |-> score])
    IN  /\ locals' = l
        /\ IF variant = "options"
           THEN Returns(FinalResult(clock, market_data, OptionsSignals(l),
                                    [signals |-> OptionsSignals(l)]))
           ELSE /\ pc' = "news"
                /\ UNCHANGED <<result, exc>>

\* weather_data = await self.weather_fetcher.fetch_weather_data("New York")
\* with WeatherDataFetcher.fetch_weather_data: a plain function, which makes
\* the request (a RequestException gives {}) and returns a dict; awaiting a
\* dict raises TypeError.
FetchWeatherRepo ==
    /\ pc = "weather"
    /\ weather_fetcher = "repo"
    /\ clock' = clock + 1
    /\ calls' = calls \cup {"weather"}
    /\ UNCHANGED <<variant, weather_fetcher, news_fetcher, market_data, sentiment, locals>>
    /\ \E http \in {"ok", "RequestException"} :
          failed' = IF http = "ok" THEN failed ELSE failed \cup {"weather"}
    /\ Raises("TypeError")

\* The same await with an awaitable fetcher, then _analyze_weather_data.
FetchWeatherAwaitable ==
    /\ pc = "weather"
    /\ weather_fetcher = "awaitable"
    /\ clock' = clock + 1
    /\ calls' = calls \cup {"weather"}
    /\ UNCHANGED <<variant, weather_fetcher, news_fetcher, market_data, sentiment>>
    /\ \E out \in AwaitableOutcomes(WeatherData) :
          IF ~out.ok
          THEN /\ Raises(out.exc)
               /\ failed' = failed \cup {"weather"}
               /\ UNCHANGED locals
          ELSE LET a == AnalyzeWeatherData(out.val)
               IN  IF ~a.ok
                   THEN /\ Raises(a.exc)
                        /\ failed' = failed \cup {"weather"}
                        /\ UNCHANGED locals
                   ELSE /\ AfterWeather(a.val)
                        /\ UNCHANGED failed

\* news_data = await self.news_fetcher.fetch_news_data("market") with
\* NewsDataFetcher.fetch_news_data, a plain function like the weather one.
FetchNewsRepo ==
    /\ pc = "news"
    /\ news_fetcher = "repo"
    /\ clock' = clock + 1
    /\ calls' = calls \cup {"news"}
    /\ UNCHANGED <<variant, weather_fetcher, news_fetcher, market_data, sentiment, locals>>
    /\ \E http \in {"ok", "RequestException"} :
          failed' = IF http = "ok" THEN failed ELSE failed \cup {"news"}
    /\ Raises("TypeError")

\* The same await with an awaitable fetcher, then _analyze_news_data, the
\* combination of the signals and the return.
FetchNewsAwaitable ==
    /\ pc = "news"
    /\ news_fetcher = "awaitable"
    /\ clock' = clock + 1
    /\ calls' = calls \cup {"news"}
    /\ UNCHANGED <<variant, weather_fetcher, news_fetcher, market_data, sentiment>>
    /\ \E out \in AwaitableOutcomes(NewsData) :
          IF ~out.ok
          THEN /\ Raises(out.exc)
               /\ failed' = failed \cup {"news"}
               /\ UNCHANGED locals
          ELSE LET l == Merge(locals, [news |-> AnalyzeNewsData(out.val)])
                   signals == FuturesSignals(market_data, l, sentiment)
               IN  /\ locals' = l
                   /\ Returns(FinalResult(clock, market_data, signals,
                                          [signals |-> signals,
                                           sentiment_confidence |-> sentiment.confidence]))
                   /\ UNCHANGED failed

(***************************************************************************)
(* BaseStrategy._calculate_confidence applied to arbitrary SignalSets      *)
(***************************************************************************)
MaxSignals == 3

VARIABLES
    cf_signals,     \* the argument: a dict of scores
    cf_out,         \* the value returned, or NoneVal
    cf_done

confVars == <<cf_signals, cf_out, cf_done>>

SignalNames == <<"signal1", "signal2", "signal3", "signal4", "signal5">>
ScoreValues == { OfInt(-2), MinusOne, Zero, Rat(1, 2), One, OfInt(2) }
SignalDicts ==
    UNION { [ { SignalNames[i] : i \in 1..n } -> ScoreValues ] : n \in 0..MaxSignals }

ConfIdle ==
    /\ cf_signals = EmptyDict
    /\ cf_out = NoneVal
    /\ cf_done = FALSE

ConfInit ==
    /\ cf_signals \in SignalDicts
    /\ cf_out = NoneVal
    /\ cf_done = FALSE

ApplyConfidence ==
    /\ ~cf_done
    /\ cf_out' = CalculateConfidence(cf_signals)
    /\ cf_done' = TRUE
    /\ UNCHANGED cf_signals

(***************************************************************************)
(* Backtest._simulate_trade applied to arbitrary signals and records       *)
(***************************************************************************)
DefaultTradeSize == One
DefaultSlippage == Rat(1, 1000)
DefaultThreshold == Rat(2, 10)

SimulateTradeLe(signal, data, config) ==
    LET trade_size == GetOr(config, "trade_size", DefaultTradeSize)
        slippage == GetOr(config, "slippage", DefaultSlippage)
    IN  IF FLe(FAbs(signal), GetOr(config, "min_signal_threshold", DefaultThreshold))
        THEN IF Has(data, "price")
             THEN Ret([action |-> "hold", size |-> Zero, price |-> data["price"]])
             ELSE Raise("KeyError")
        ELSE LET action == IF FGt(signal, Zero) THEN "buy" ELSE "sell"
             IN  IF Has(data, "price")
                 THEN Ret([action |-> action, size |-> trade_size,
                           price |-> FMul(data["price"],
                                          IF action = "buy" THEN FAdd(One, slippage)
                                          ELSE FSub(One, slippage)),
                           slippage |-> slippage])
                 ELSE Raise("KeyError")
SimulateTradeNoSlip(signal, data, config) ==
    LET trade_size == GetOr(config, "trade_size", DefaultTradeSize)
        slippage == GetOr(config, "slippage", DefaultSlippage)
    IN  IF FLt(FAbs(signal), GetOr(config, "min_signal_threshold", DefaultThreshold))
        THEN IF Has(data, "price")
             THEN Ret([action |-> "hold", size |-> Zero, price |-> data["price"]])
             ELSE Raise("KeyError")
        ELSE LET action == IF FGt(signal, Zero) THEN "buy" ELSE "sell"
             IN  IF Has(data, "price")
                 THEN Ret([action |-> action, size |-> trade_size,
                           price |-> FMul(data["price"], FAdd(One, slippage)),
                           slippage |-> slippage])
                 ELSE Raise("KeyError")
\* Backtest._simulate_trade(signal, market_data), signal being signal.signal
\* and config self.config; market_data["price"] raises KeyError when absent.
SimulateTrade(signal, data, config) ==
    LET trade_size == GetOr(config, "trade_size", DefaultTradeSize)
        slippage == GetOr(config, "slippage", DefaultSlippage)
    IN  IF FLt(FAbs(signal), GetOr(config, "min_signal_threshold", DefaultThreshold))
        THEN IF Has(data, "price")
             THEN Ret([action |-> "hold", size |-> Zero, price |-> data["price"]])
             ELSE Raise("KeyError")
        ELSE LET action == IF FGt(signal, Zero) THEN "buy" ELSE "sell"
             IN  IF Has(data, "price")
                 THEN Ret([action |-> action, size |-> trade_size,
                           price |-> FMul(data["price"],
                                          IF action = "buy" THEN FAdd(One, slippage)
                                          ELSE FSub(One, slippage)),
                           slippage |-> slippage])
                 ELSE Raise("KeyError")

VARIABLES
    sim_signal,     \* signal.signal
    sim_data,       \* market_data
    sim_config,     \* self.config
    sim_out,        \* the outcome of _simulate_trade, or NoneVal
    sim_done

simVars == <<sim_signal, sim_data, sim_config, sim_out, sim_done>>

SimSignals ==
    { MinusOne, Rat(-6, 10), Rat(-2, 10), Rat(-15, 100), Zero, Rat(1, 10), Rat(15, 100),
      Rat(2, 10), Rat(5, 10), One, NaN }
SimRecords ==
    { [symbol |-> "TEST", timestamp |-> OfInt(1), price |-> OfInt(100)],
      [symbol |-> "TEST", timestamp |-> OfInt(1), price |-> Rat(505, 10)],
      [symbol |-> "TEST", timestamp |-> OfInt(1)] }
Configs ==
    { EmptyDict,
      [min_signal_threshold |-> Rat(5, 10)],
      [min_signal_threshold |-> Zero, slippage |-> Zero],
      [trade_size |-> OfInt(2), slippage |-> Rat(1, 100)],
      [trade_size |-> Zero] }

SimIdle ==
    /\ sim_signal = Zero
    /\ sim_data = EmptyDict
    /\ sim_config = EmptyDict
    /\ sim_out = NoneVal
    /\ sim_done = FALSE

SimInit ==
    /\ sim_signal \in SimSignals
    /\ sim_data \in SimRecords
    /\ sim_config \in Configs
    /\ sim_out = NoneVal
    /\ sim_done = FALSE

ApplySimulateTrade ==
    /\ ~sim_done
    /\ sim_out' = SimulateTrade(sim_signal, sim_data, sim_config)
    /\ sim_done' = TRUE
    /\ UNCHANGED <<sim_signal, sim_data, sim_config>>

(***************************************************************************)
(* Backtest.run                                                            *)
(***************************************************************************)
MaxRecords == 3

VARIABLES
    bt_config,      \* self.config
    bt_data,        \* historical_data, the argument of run
    bt_results,     \* self.results
    bt_i,           \* the position of the for loop in historical_data
    bt_pc,          \* loop, await (in strategy.generate_signal), done, raised
    bt_requests,    \* the positions whose signal was requested, in order
    bt_exc,         \* the exception that left run, or "none"
    bt_metrics      \* the outcome of calculate_metrics(), or NoneVal before the call

btVars == <<bt_config, bt_data, bt_results, bt_i, bt_pc, bt_requests, bt_exc, bt_metrics>>

DataPoints ==
    { [symbol |-> "TEST", price |-> p, timestamp |-> OfInt(t)] :
        p \in {OfInt(100), OfInt(50)}, t \in {1, 2} }
    \cup { [symbol |-> "TEST", timestamp |-> OfInt(1)],
           [price |-> OfInt(100), timestamp |-> OfInt(2)] }

BtSignals == { Rat(5, 10), Rat(-6, 10), Rat(1, 10) }
\* The configurations of the runs: the default threshold and size with a
\* slippage of a quarter, a threshold that one of the signals meets exactly,
\* and a negative slippage (a price improvement).  The slippages are chosen
\* so that the returns have small denominators.
BtConfigs ==
    { [slippage |-> Rat(1, 4)],
      [min_signal_threshold |-> Rat(5, 10), trade_size |-> OfInt(2), slippage |-> Zero],
      [slippage |-> Rat(-1, 4)] }

\* What strategy.generate_signal(data_point) gives the runner: the neutral
\* result for a record that fails validation, and for a valid record a
\* result with some signal or an exception.
StrategyOutcomes(data_point) ==
    IF ~ValidateMarketData(data_point)
    THEN { Ret([signal |-> Zero, confidence |-> Zero]) }
    ELSE { Ret([signal |-> x, confidence |-> One]) : x \in BtSignals } \cup { Raise("TypeError") }

ProfitLossUnsigned(trade_result, data) ==
    IF trade_result.action = "hold" THEN Zero
    ELSE FMul(FSub(data["price"], trade_result.price), trade_result.size)
\* Backtest._calculate_profit_loss
CalculateProfitLoss(trade_result, data) ==
    IF trade_result.action = "hold" THEN Zero
    ELSE FMul(FMul(FSub(data["price"], trade_result.price), trade_result.size),
              IF trade_result.action = "buy" THEN One ELSE MinusOne)

DataPointReversed(data, i) == data[Len(data) + 1 - i]
\* for data_point in historical_data: the i-th iteration's data_point
DataPointAt(data, i) == data[i]

\* The body of the loop after the signal has arrived: the outcome is the
\* record to append, or the KeyError of a missing field.
LoopBody(signal, data_point, config) ==
    LET trade == SimulateTrade(signal.signal, data_point, config)
    IN  IF ~trade.ok THEN Raise(trade.exc)
        ELSE IF \E f \in RequiredFields : ~Has(data_point, f) THEN Raise("KeyError")
        ELSE Ret([timestamp |-> data_point["timestamp"],
                  symbol |-> data_point["symbol"],
                  price |-> data_point["price"],
                  signal |-> signal.signal,
                  confidence |-> signal.confidence,
                  trade_result |-> trade.val,
                  profit_loss |-> CalculateProfitLoss(trade.val, data_point)])

IsWinningTradeFlipped(record) ==
    LET trade == record.trade_result
    IN  IF trade.action = "hold" THEN FALSE
        ELSE \/ trade.action = "buy" /\ FLt(record.price, trade.price)
             \/ trade.action = "sell" /\ FGt(record.price, trade.price)
\* Backtest._is_winning_trade
IsWinningTrade(record) ==
    LET trade == record.trade_result
    IN  IF trade.action = "hold" THEN FALSE
        ELSE \/ trade.action = "buy" /\ FGt(record.price, trade.price)
             \/ trade.action = "sell" /\ FLt(record.price, trade.price)

\* Backtest._calculate_trade_return, for an executed price other than 0
CalculateTradeReturn(record) ==
    LET trade == record.trade_result
    IN  IF trade.action = "hold" THEN Zero
        ELSE FMul(FDiv(FSub(record.price, trade.price), trade.price),
                  IF trade.action = "buy" THEN One ELSE MinusOne)

\* returns = [self._calculate_trade_return(r) for r in self.results]
TradeReturns(results) == [i \in 1..Len(results) |-> CalculateTradeReturn(results[i])]

\* The division of _calculate_trade_return raises ZeroDivisionError for a
\* buy or sell whose executed price is 0.
DividesByZero(results) ==
    \E i \in 1..Len(results) :
        /\ results[i].trade_result.action # "hold"
        /\ results[i].trade_result.price = Zero

AverageReturnOverTrades(results) ==
    LET trades == Cardinality({ i \in 1..Len(results) : results[i].trade_result.action # "hold" })
    IN  IF trades = 0 THEN Zero ELSE FDiv(SumSeq(TradeReturns(results)), OfInt(trades))
\* Backtest._calculate_average_return
CalculateAverageReturn(results) ==
    IF results = <<>> THEN Zero
    ELSE FDiv(SumSeq(TradeReturns(results)), OfInt(Len(results)))

\* sum((r - avg_return) ** 2 for r in returns) / len(returns)
ReturnVariance(returns) ==
    LET avg_return == FDiv(SumSeq(returns), OfInt(Len(returns)))
        squares == [i \in 1..Len(returns) |->
                      FMul(FSub(returns[i], avg_return), FSub(returns[i], avg_return))]
    IN  FDiv(SumSeq(squares), OfInt(Len(returns)))

\* a / v ** 0.5 for v > 0.  The square root is not a rational in general:
\* the quotient is kept as the pair of a and v.
OverSqrt(a, v) == [over_sqrt |-> TRUE, num |-> a, den_squared |-> v]

SharpeRatioNoGuard(results) ==
    IF results = <<>> THEN Zero
    ELSE OverSqrt(CalculateAverageReturn(results), ReturnVariance(TradeReturns(results)))
\* Backtest._calculate_sharpe_ratio; std_dev = variance ** 0.5 is positive
\* exactly when the variance is.
CalculateSharpeRatio(results) ==
    IF results = <<>> THEN Zero
    ELSE LET returns == TradeReturns(results)
             avg_return == FDiv(SumSeq(returns), OfInt(Len(returns)))
             variance == ReturnVariance(returns)
         IN  IF FGt(variance, Zero) THEN OverSqrt(avg_return, variance) ELSE Zero

TotalTradesAll(results) == Len(results)
\* len([r for r in self.results if r["trade_result"]["action"] != "hold"])
TotalTrades(results) ==
    Cardinality({ i \in 1..Len(results) : results[i].trade_result.action # "hold" })
\* len([r for r in self.results if self._is_winning_trade(r)])
WinningTrades(results) == Cardinality({ i \in 1..Len(results) : IsWinningTrade(results[i]) })
\* sum(r["profit_loss"] for r in self.results)
TotalProfitLoss(results) == SumSeq([i \in 1..Len(results) |-> results[i].profit_loss])

\* The mapping calculate_metrics builds from a non-empty self.results.
MetricsOf(results) ==
    [total_trades |-> TotalTrades(results),
     win_rate |-> IF TotalTrades(results) > 0
                  THEN Rat(WinningTrades(results), TotalTrades(results)) ELSE Zero,
     avg_return |-> CalculateAverageReturn(results),
     sharpe_ratio |-> CalculateSharpeRatio(results),
     total_profit_loss |-> TotalProfitLoss(results)]

CalculateMetricsNoGuard(results) ==
    IF results = <<>>
    THEN Ret([total_trades |-> 0, win_rate |-> Zero, avg_return |-> Zero,
              sharpe_ratio |-> Zero, total_profit_loss |-> Zero])
    ELSE Ret(MetricsOf(results))
\* Backtest.calculate_metrics
CalculateMetrics(results) ==
    IF results = <<>> THEN Ret(EmptyDict)
    ELSE IF DividesByZero(results) THEN Raise("ZeroDivisionError")
    ELSE Ret(MetricsOf(results))

BtIdle ==
    /\ bt_metrics = NoneVal
    /\ bt_config = EmptyDict
    /\ bt_data = <<>>
    /\ bt_results = <<>>
    /\ bt_i = 1
    /\ bt_pc = "idle"
    /\ bt_requests = <<>>
    /\ bt_exc = "none"

\* A fresh Backtest (self.results = []) whose run has been called.
BtInit ==
    /\ bt_config \in BtConfigs
    /\ bt_data \in UNION { [1..n -> DataPoints] : n \in 0..MaxRecords }
    /\ bt_results = <<>>
    /\ bt_i = 1
    /\ bt_pc = "loop"
    /\ bt_requests = <<>>
    /\ bt_exc = "none"
    /\ bt_metrics = NoneVal

\* signal = await strategy.generate_signal(data_point): the call
BtRequest ==
    /\ bt_pc = "loop"
    /\ bt_i <= Len(bt_data)
    /\ bt_requests' = Append(bt_requests, bt_i)
    /\ bt_pc' = "await"
    /\ UNCHANGED <<bt_config, bt_data, bt_results, bt_i, bt_exc, bt_metrics>>

\* The await ends with a result: the rest of the loop body.
BtResume ==
    /\ bt_pc = "await"
    /\ \E out \in StrategyOutcomes(DataPointAt(bt_data, bt_i)) :
          /\ out.ok
          /\ LET body == LoopBody(out.val, DataPointAt(bt_data, bt_i), bt_config)
             IN  IF body.ok
                 THEN /\ bt_results' = Append(bt_results, body.val)
                      /\ bt_i' = bt_i + 1
                      /\ bt_pc' = "loop"
                      /\ UNCHANGED bt_exc
                 ELSE /\ bt_pc' = "raised"
                      /\ bt_exc' = body.exc
                      /\ UNCHANGED <<bt_results, bt_i>>
    /\ UNCHANGED <<bt_config, bt_data, bt_requests, bt_metrics>>

\* The await ends with the strategy's exception, which run does not catch.
BtStrategyRaises ==
    /\ bt_pc = "await"
    /\ \E out \in StrategyOutcomes(DataPointAt(bt_data, bt_i)) :
          /\ ~out.ok
          /\ bt_exc' = out.exc
    /\ bt_pc' = "raised"
    /\ UNCHANGED <<bt_config, bt_data, bt_results, bt_i, bt_requests, bt_metrics>>

\* return self.results
BtReturn ==
    /\ bt_pc = "loop"
    /\ bt_i > Len(bt_data)
    /\ bt_pc' = "done"
    /\ UNCHANGED <<bt_config, bt_data, bt_results, bt_i, bt_requests, bt_exc, bt_metrics>>

\* calculate_metrics(), called once run has ended
BtMetrics ==
    /\ bt_pc \in {"done", "raised"}
    /\ bt_metrics = NoneVal
    /\ bt_metrics' = CalculateMetrics(bt_results)
    /\ UNCHANGED <<bt_config, bt_data, bt_results, bt_i, bt_pc, bt_requests, bt_exc>>

(***************************************************************************)
(* Two calls of run on one Backtest                                        *)
(***************************************************************************)
MaxRunRecords == 2

Runs == {1, 2}

VARIABLES
    rn_data,        \* historical_data of each call
    rn_i,           \* the position of each call's for loop
    rn_pc,          \* of each call: idle (not called yet), await, done, raised
    rn_results,     \* self.results, the one list of the instance
    rn_owner,       \* for each element of self.results, the call that appended it
    rn_returned     \* for each call, self.results as it was when the call returned

rnVars == <<rn_data, rn_i, rn_pc, rn_results, rn_owner, rn_returned>>

RunDataPoints ==
    { [symbol |-> "TEST", price |-> OfInt(100), timestamp |-> OfInt(1)],
      [symbol |-> "TEST", price |-> OfInt(50), timestamp |-> OfInt(2)] }

\* Backtest(config) without an argument: self.config = {}
RunsConfig == EmptyDict

RnIdle ==
    /\ rn_data = [r \in Runs |-> <<>>]
    /\ rn_i = [r \in Runs |-> 1]
    /\ rn_pc = [r \in Runs |-> "idle"]
    /\ rn_results = <<>>
    /\ rn_owner = <<>>
    /\ rn_returned = [r \in Runs |-> NoneVal]

\* A fresh Backtest (self.results = []) and the arguments of the two calls.
RnInit ==
    /\ rn_data \in [Runs -> UNION { [1..n -> RunDataPoints] : n \in 0..MaxRunRecords }]
    /\ rn_i = [r \in Runs |-> 1]
    /\ rn_pc = [r \in Runs |-> "idle"]
    /\ rn_results = <<>>
    /\ rn_owner = <<>>
    /\ rn_returned = [r \in Runs |-> NoneVal]

\* A call runs without interruption from one await to the next, so a step
\* of a call is the code between two awaits.
\* The call of run up to its first await, or to its return when
\* historical_data is empty.
RnCall(r) ==
    /\ rn_pc[r] = "idle"
    /\ IF Len(rn_data[r]) = 0
       THEN /\ rn_pc' = [rn_pc EXCEPT ![r] = "done"]
            /\ rn_returned' = [rn_returned EXCEPT ![r] = rn_results]
       ELSE /\ rn_pc' = [rn_pc EXCEPT ![r] = "await"]
            /\ UNCHANGED rn_returned
    /\ UNCHANGED <<rn_data, rn_i, rn_results, rn_owner>>

\* The await of a call ends with a result: the rest of the loop body, then
\* the next await or return self.results.
RnResume(r) ==
    /\ rn_pc[r] = "await"
    /\ \E out \in StrategyOutcomes(DataPointAt(rn_data[r], rn_i[r])) :
          /\ out.ok
          /\ LET body == LoopBody(out.val, DataPointAt(rn_data[r], rn_i[r]), RunsConfig)
             IN  IF body.ok
                 THEN /\ rn_results' = Append(rn_results, body.val)
                      /\ rn_owner' = Append(rn_owner, r)
                      /\ rn_i' = [rn_i EXCEPT ![r] = rn_i[r] + 1]
                      /\ IF rn_i[r] + 1 > Len(rn_data[r])
                         THEN /\ rn_pc' = [rn_pc EXCEPT ![r] = "done"]
                              /\ rn_returned' = [rn_returned EXCEPT ![r] = rn_results']
                         ELSE UNCHANGED <<rn_pc, rn_returned>>
                 ELSE /\ rn_pc' = [rn_pc EXCEPT ![r] = "raised"]
                      /\ UNCHANGED <<rn_results, rn_owner, rn_i, rn_returned>>
    /\ UNCHANGED rn_data

\* The await of a call ends with the strategy's exception.
RnStrategyRaises(r) ==
    /\ rn_pc[r] = "await"
    /\ \E out \in StrategyOutcomes(DataPointAt(rn_data[r], rn_i[r])) : ~out.ok
    /\ rn_pc' = [rn_pc EXCEPT ![r] = "raised"]
    /\ UNCHANGED <<rn_data, rn_i, rn_results, rn_owner, rn_returned>>

(***************************************************************************)
(* Two calls of generate_signal with the same record                       *)
(***************************************************************************)
VARIABLES
    tw_first        \* the first call's result and scores once the second call
                    \* has begun, NoneVal before

twVars == <<tw_first>>

TwIdle == tw_first = NoneVal

\* The records of the repeated calls: with and without each required field,
\* with and without indicators and options metrics.
TwiceRecords ==
    { m \in MarketData :
        /\ ~Has(m, "open")
        /\ Has(m, "indicators") => Has(m["indicators"], "volatility")
        /\ Has(m, "options_metrics") => Has(m["options_metrics"], "average_oi") }

\* generate_signal is called again with the record of the first call.
CallAgain ==
    /\ pc = "returned"
    /\ tw_first = NoneVal
    /\ tw_first' = [result |-> result, locals |-> locals, sentiment |-> sentiment]
    /\ pc' = "start"
    /\ locals' = EmptyDict
    /\ sentiment' = NoneVal
    /\ result' = NoneVal
    /\ clock' = clock + 1
    /\ UNCHANGED <<variant, weather_fetcher, news_fetcher, market_data, exc, calls, failed>>

\* In the second call every provider answers as it did in the first: it
\* does not raise and its score is the score of the first call.
SameScores ==
    (tw_first # NoneVal) =>
        /\ pc # "raised"
        /\ \A k \in DOMAIN locals : k \in DOMAIN tw_first.locals /\ locals[k] = tw_first.locals[k]
        /\ (sentiment # NoneVal) => (sentiment = tw_first.sentiment)

(***************************************************************************)
(* The technical and options scorers applied to arbitrary records          *)
(***************************************************************************)
VARIABLES
    sc_data,        \* the argument of the scorers
    sc_out,         \* the score of each scorer, or NoneVal
    sc_done

scVars == <<sc_data, sc_out, sc_done>>

\* An optional key of a mapping: absent, or present with one of the values.
Optional(key, values) == {EmptyDict} \cup { [k \in {key} |-> v] : v \in values }

\* Records with indicators: RSI on both sides of 30 and 70 and on them, MACD
\* on both sides of 0, a volume and a volatility with and without averages.
IndicatorRecords ==
    { Merge(Merge(BaseRecord, [indicators |-> Merge(Merge(Merge(r, m), v[1]), w[1])]),
            Merge(v[2], w[2])) :
        r \in Optional("rsi", {OfInt(25), OfInt(30), OfInt(50), OfInt(70), OfInt(85)}),
        m \in Optional("macd", {MinusOne, Zero, One}),
        v \in { <<EmptyDict, EmptyDict>>,
                <<[volume |-> OfInt(1000)], EmptyDict>>,
                <<[volume |-> OfInt(3000)], [average_volume |-> OfInt(1000)]>> },
        w \in { <<EmptyDict, EmptyDict>>,
                <<[volatility |-> OfInt(5)], EmptyDict>>,
                <<[volatility |-> OfInt(5)], [average_volatility |-> OfInt(2)]>> } }

\* Records with options metrics: every combination of the keys the scorer
\* reads, the values on both sides of its thresholds and on them.
OptionsMetricsRecords ==
    { Merge(BaseRecord, [options_metrics |-> Merge(Merge(Merge(i, p), r), o)]) :
        i \in Optional("iv", {Rat(3, 10)}),
        p \in Optional("iv_percentile", {OfInt(10), OfInt(20), OfInt(80), OfInt(90)}),
        r \in Optional("put_call_ratio", {Rat(3, 10), Rat(5, 10), Rat(15, 10), OfInt(2)}),
        o \in { EmptyDict,
                [open_interest |-> OfInt(10000)],
                [open_interest |-> OfInt(20000), average_oi |-> OfInt(10000)] } }

ScIdle ==
    /\ sc_data = EmptyDict
    /\ sc_out = NoneVal
    /\ sc_done = FALSE

ScInit ==
    /\ sc_data \in IndicatorRecords \cup OptionsMetricsRecords
    /\ sc_out = NoneVal
    /\ sc_done = FALSE

ApplyScorers ==
    /\ ~sc_done
    /\ sc_out' = [futures_technical |-> FuturesTechnical(sc_data),
                  options_technical |-> OptionsTechnical(sc_data),
                  options_metrics |-> AnalyzeOptionsMetrics(sc_data)]
    /\ sc_done' = TRUE
    /\ UNCHANGED sc_data

(***************************************************************************)
(* WebsocketClient                                                         *)
(***************************************************************************)
MaxMessages == 2

VARIABLES
    ws_websocket,       \* self.websocket: NoneVal or the connection object
    ws_keep_running,    \* self._keep_running
    ws_open,            \* whether the connection of the library is open
    ws_call,            \* the last call of connect, disconnect, subscribe or run
                        \* that ended: what it raised and whether it sent
    ws_closing,         \* disconnect is suspended in await self.websocket.close()
    ws_run,             \* the message loop: idle, recv, handle, stopped
    ws_recv_closed,     \* the connection was closed under the pending recv()
    ws_inbox,           \* what the server sends, in order
    ws_next,            \* the position in ws_inbox of the next arrival
    ws_log              \* the messages handled: position, type, handler reached

wsVars == <<ws_websocket, ws_keep_running, ws_open, ws_call, ws_closing, ws_run,
            ws_recv_closed, ws_inbox, ws_next, ws_log>>

\* What recv() gives: a message of a type, a text that eval cannot read or
\* that is no dict, or an exception other than ConnectionClosed.
Arrivals == {"market_data", "order_update", "heartbeat", "malformed", "recv_error"}

Connection == [connection |-> TRUE]

\* The public methods of the class of websocket/order_execution.py,
\* OrderExecutor.  websocket_client.py imports the name OrderExecution from
\* that module and calls handle_order_update on the instance.
OrderHandlerMethods == {"execute_order"}

\* WebsocketClient._handle_message: the handler that gets the message.  An
\* exception in the body (eval of a malformed text, a method that does not
\* exist) is caught and logged.
RouteTo(message) ==
    IF message = "malformed" THEN "none"
    ELSE IF message = "market_data" THEN "market_data_handler"
    ELSE IF message = "order_update"
    THEN IF "handle_order_update" \in OrderHandlerMethods THEN "order_handler" ELSE "none"
    ELSE "none"

WsCall(op, raised, was_connected, sent) ==
    [op |-> op, raised |-> raised, was_connected |-> was_connected, sent |-> sent]

\* while self._keep_running: the loop goes on to recv() or ends
LoopHead(keep_running) == IF keep_running THEN "recv" ELSE "stopped"

WsIdle ==
    /\ ws_websocket = NoneVal
    /\ ws_keep_running = FALSE
    /\ ws_open = FALSE
    /\ ws_call = NoneVal
    /\ ws_closing = FALSE
    /\ ws_run = "idle"
    /\ ws_recv_closed = FALSE
    /\ ws_inbox = <<>>
    /\ ws_next = 1
    /\ ws_log = <<>>

\* WebsocketClient.__init__ and the messages the server is going to send.
WsInit ==
    /\ ws_websocket = NoneVal
    /\ ws_keep_running = FALSE
    /\ ws_open = FALSE
    /\ ws_call = NoneVal
    /\ ws_closing = FALSE
    /\ ws_run = "idle"
    /\ ws_recv_closed = FALSE
    /\ ws_inbox \in UNION { [1..n -> Arrivals] : n \in 0..MaxMessages }
    /\ ws_next = 1
    /\ ws_log = <<>>

\* connect(): websockets.connect succeeds, or it raises (as does a config
\* without websocket_uri) and the exception is logged and raised again.
WsConnect ==
    /\ ~ws_closing
    /\ \E outcome \in {"connected", "OSError"} :
          IF outcome = "connected"
          THEN /\ ws_websocket' = Connection
               /\ ws_open' = TRUE
               /\ ws_keep_running' = TRUE
               /\ ws_call' = WsCall("connect", "none", ws_websocket # NoneVal, FALSE)
          ELSE /\ ws_call' = WsCall("connect", outcome, ws_websocket # NoneVal, FALSE)
               /\ UNCHANGED <<ws_websocket, ws_open, ws_keep_running>>
    /\ UNCHANGED <<ws_closing, ws_run, ws_recv_closed, ws_inbox, ws_next, ws_log>>

WsDisconnectKeepsRunning ==
    /\ ~ws_closing
    /\ IF ws_websocket # NoneVal
       THEN /\ ws_closing' = TRUE
            /\ ws_open' = FALSE
            /\ ws_recv_closed' = (ws_recv_closed \/ ws_run = "recv")
            /\ UNCHANGED ws_call
       ELSE /\ ws_call' = WsCall("disconnect", "none", FALSE, FALSE)
            /\ UNCHANGED <<ws_closing, ws_open, ws_recv_closed>>
    /\ UNCHANGED <<ws_keep_running, ws_websocket, ws_run, ws_inbox, ws_next, ws_log>>
\* disconnect() up to await self.websocket.close(), or to its end when
\* there is no websocket.  The close ends a pending recv() with
\* ConnectionClosed.
WsDisconnect ==
    /\ ~ws_closing
    /\ ws_keep_running' = FALSE
    /\ IF ws_websocket # NoneVal
       THEN /\ ws_closing' = TRUE
            /\ ws_open' = FALSE
            /\ ws_recv_closed' = (ws_recv_closed \/ ws_run = "recv")
            /\ UNCHANGED ws_call
       ELSE /\ ws_call' = WsCall("disconnect", "none", FALSE, FALSE)
            /\ UNCHANGED <<ws_closing, ws_open, ws_recv_closed>>
    /\ UNCHANGED <<ws_websocket, ws_run, ws_inbox, ws_next, ws_log>>

\* disconnect() after the close: self.websocket = None
WsDisconnectEnd ==
    /\ ws_closing
    /\ ws_websocket' = NoneVal
    /\ ws_closing' = FALSE
    /\ ws_call' = WsCall("disconnect", "none", TRUE, FALSE)
    /\ UNCHANGED <<ws_keep_running, ws_open, ws_run, ws_recv_closed, ws_inbox, ws_next, ws_log>>

\* subscribe(symbols): RuntimeError without a websocket, else send, which
\* raises ConnectionClosed on a closed connection.
WsSubscribe ==
    /\ ~ws_closing
    /\ ws_call' = IF ws_websocket = NoneVal
                  THEN WsCall("subscribe", "RuntimeError", FALSE, FALSE)
                  ELSE IF ws_open THEN WsCall("subscribe", "none", TRUE, TRUE)
                  ELSE WsCall("subscribe", "ConnectionClosed", TRUE, FALSE)
    /\ UNCHANGED <<ws_websocket, ws_keep_running, ws_open, ws_closing, ws_run,
                   ws_recv_closed, ws_inbox, ws_next, ws_log>>

\* run() is called: RuntimeError without a websocket, else the loop begins.
WsRunCalled ==
    /\ ~ws_closing
    /\ ws_run \in {"idle", "stopped"}
    /\ IF ws_websocket = NoneVal
       THEN /\ ws_call' = WsCall("run", "RuntimeError", FALSE, FALSE)
            /\ UNCHANGED ws_run
       ELSE /\ ws_call' = WsCall("run", "none", TRUE, FALSE)
            /\ ws_run' = LoopHead(ws_keep_running)
    /\ UNCHANGED <<ws_websocket, ws_keep_running, ws_open, ws_closing, ws_recv_closed,
                   ws_inbox, ws_next, ws_log>>

\* message = await self.websocket.recv() ends: with ConnectionClosed (break),
\* with another exception (continue), or with the next message.
WsRecv ==
    /\ ws_run = "recv"
    /\ IF ws_recv_closed \/ ~ws_open
       THEN /\ ws_run' = "stopped"
            /\ UNCHANGED ws_next
       ELSE /\ ws_next <= Len(ws_inbox)
            /\ ws_next' = ws_next + 1
            /\ ws_run' = IF ws_inbox[ws_next] = "recv_error"
                         THEN LoopHead(ws_keep_running) ELSE "handle"
    /\ ws_recv_closed' = FALSE
    /\ UNCHANGED <<ws_websocket, ws_keep_running, ws_open, ws_call, ws_closing,
                   ws_inbox, ws_log>>

\* await self._handle_message(message) ends, and the loop tests
\* self._keep_running again.
WsHandle ==
    /\ ws_run = "handle"
    /\ ws_log' = Append(ws_log, [position |-> ws_next - 1,
                                 type |-> ws_inbox[ws_next - 1],
                                 handler |-> RouteTo(ws_inbox[ws_next - 1])])
    /\ ws_run' = LoopHead(ws_keep_running)
    /\ UNCHANGED <<ws_websocket, ws_keep_running, ws_open, ws_call, ws_closing,
                   ws_recv_closed, ws_inbox, ws_next>>

\* The server closes the connection.
WsServerCloses ==
    /\ ws_open
    /\ ws_open' = FALSE
    /\ ws_recv_closed' = (ws_recv_closed \/ ws_run = "recv")
    /\ UNCHANGED <<ws_websocket, ws_keep_running, ws_call, ws_closing, ws_run,
                   ws_inbox, ws_next, ws_log>>

(***************************************************************************)
(* MarketDataHandler                                                       *)
(***************************************************************************)
VARIABLES
    mh_callbacks,       \* self._callbacks: symbol -> callback
    mh_call             \* the last call: its arguments, the registry before it,
                        \* the callbacks it invoked and what it raised

mhVars == <<mh_callbacks, mh_call>>

MhSymbols == {"AAA", "BBB"}
MhCallbacks == {"on_tick", "on_quote"}
MhRequiredFields == {"symbol", "price", "timestamp"}

\* Market data mappings: any of the required fields may be missing, and the
\* symbol may be one nobody registers for.
MhRecords ==
    { [k \in ks |-> IF k = "symbol" THEN s ELSE 1] :
         ks \in SUBSET MhRequiredFields, s \in MhSymbols }

ValidateSymbolOnly(data) == Has(data, "symbol")
\* MarketDataHandler._validate_market_data
MhValidateMarketData(data) ==
    \A field \in MhRequiredFields : Has(data, field)

\* d[k] = v and del d[k] of a Python dict
DictSet(d, k, v) == [x \in DOMAIN d \cup {k} |-> IF x = k THEN v ELSE d[x]]
DictDel(d, k) == [x \in DOMAIN d \ {k} |-> d[x]]

MhIdle ==
    /\ mh_callbacks = EmptyDict
    /\ mh_call = NoneVal

\* MarketDataHandler.__init__
MhInit ==
    /\ mh_callbacks = EmptyDict
    /\ mh_call = NoneVal

\* register_callback(symbol, callback)
RegisterCallback ==
    \E symbol \in MhSymbols, callback \in MhCallbacks :
       /\ mh_callbacks' = DictSet(mh_callbacks, symbol, callback)
       /\ mh_call' = [op |-> "register_callback", symbol |-> symbol, callback |-> callback,
                      before |-> mh_callbacks, invoked |-> <<>>, raised |-> "none"]

\* unregister_callback(symbol)
UnregisterCallback ==
    \E symbol \in MhSymbols :
       /\ mh_callbacks' = IF Has(mh_callbacks, symbol)
                          THEN DictDel(mh_callbacks, symbol) ELSE mh_callbacks
       /\ mh_call' = [op |-> "unregister_callback", symbol |-> symbol,
                      before |-> mh_callbacks, invoked |-> <<>>, raised |-> "none"]

\* process_market_data(market_data); the callback returns or raises an
\* Exception, which is logged.
ProcessMarketData ==
    \E data \in MhRecords, callback_raises \in BOOLEAN :
       /\ mh_call' = [op |-> "process_market_data", market_data |-> data,
                      callback_raises |-> callback_raises,
                      before |-> mh_callbacks,
                      invoked |-> IF ~MhValidateMarketData(data) THEN <<>>
                                  ELSE IF Has(mh_callbacks, data["symbol"])
                                  THEN <<mh_callbacks[data["symbol"]]>>
                                  ELSE <<>>,
                      raised |-> "none"]
       /\ UNCHANGED mh_callbacks

(***************************************************************************)
(* OrderExecutor                                                           *)
(***************************************************************************)
VARIABLES
    oe_config,          \* self.config
    oe_order,           \* the order_data of the call
    oe_out,             \* what execute_order returned or raised
    oe_done             \* execute_order has ended

oeVars == <<oe_config, oe_order, oe_out, oe_done>>

OrderRequiredFields == {"symbol", "action", "size", "price"}

\* Orders: any of the required fields may be missing; sizes lie around the
\* limit of OrderConfigs and include zero and a negative one.
Orders ==
    { [k \in ks |-> IF k = "symbol" THEN "AAA"
                    ELSE IF k = "action" THEN action
                    ELSE IF k = "size" THEN size
                    ELSE price] :
         ks \in SUBSET OrderRequiredFields, action \in {"buy", "sell"},
         size \in {-1, 0, 4, 5, 6}, price \in {10, 20} }

OrderConfigs == {EmptyDict, [k \in {"max_order_size"} |-> 5]}

\* OrderExecutor._validate_order
ValidateOrder(order_data) ==
    \A field \in OrderRequiredFields : Has(order_data, field)

RiskLimitInclusive(config, order_data) ==
    Has(config, "max_order_size") /\ order_data["size"] >= config["max_order_size"]
\* OrderExecutor._check_risk_limits: TRUE when it raises ValueError.  Without
\* max_order_size the limit is float("inf"), which no size exceeds.
ExceedsRiskLimits(config, order_data) ==
    Has(config, "max_order_size") /\ order_data["size"] > config["max_order_size"]

\* OrderExecutor._process_order
ProcessOrder(config, order_data, now) ==
    IF ExceedsRiskLimits(config, order_data) THEN Raise("ValueError")
    ELSE Ret([symbol |-> order_data["symbol"],
              action |-> order_data["action"],
              executed_price |-> order_data["price"],
              executed_size |-> order_data["size"],
              timestamp |-> now,
              status |-> "filled"])

\* OrderExecutor.execute_order: what is raised inside is logged and raised
\* again.
ExecuteOrderResult(config, order_data, now) ==
    IF ~ValidateOrder(order_data) THEN Raise("ValueError")
    ELSE ProcessOrder(config, order_data, now)

OeIdle ==
    /\ oe_config = EmptyDict
    /\ oe_order = EmptyDict
    /\ oe_out = NoneVal
    /\ oe_done = FALSE

\* OrderExecutor.__init__(config) and the order to execute
OeInit ==
    /\ oe_config \in OrderConfigs
    /\ oe_order \in Orders
    /\ oe_out = NoneVal
    /\ oe_done = FALSE

\* await execute_order(order_data), at some time of the clock
ExecuteOrder ==
    /\ ~oe_done
    /\ \E now \in {1, 2} : oe_out' = ExecuteOrderResult(oe_config, oe_order, now)
    /\ oe_done' = TRUE
    /\ UNCHANGED <<oe_config, oe_order>>

(***************************************************************************)
(* Specifications                                                          *)
(***************************************************************************)
vars == <<stratVars, confVars, simVars, btVars, rnVars, twVars, scVars, wsVars, mhVars, oeVars>>

StrategyIdle ==
    /\ variant = "futures"
    /\ weather_fetcher = "repo"
    /\ news_fetcher = "repo"
    /\ market_data = EmptyDict
    /\ pc = "idle"
    /\ locals = EmptyDict
    /\ sentiment = NoneVal
    /\ result = NoneVal
    /\ exc = "none"
    /\ calls = {}
    /\ failed = {}
    /\ clock = 0

\* generate_signal of both strategies.
Init == StrategyInit /\ ConfIdle /\ SimIdle /\ BtIdle /\ RnIdle /\ TwIdle /\ ScIdle /\ WsIdle /\ MhIdle /\ OeIdle
Next ==
    \/ Start /\ UNCHANGED <<confVars, simVars, btVars, rnVars, twVars, scVars, wsVars, mhVars, oeVars>>
    \/ CallSentiment /\ UNCHANGED <<confVars, simVars, btVars, rnVars, twVars, scVars, wsVars, mhVars, oeVars>>
    \/ CallChatGPT /\ UNCHANGED <<confVars, simVars, btVars, rnVars, twVars, scVars, wsVars, mhVars, oeVars>>
    \/ FetchWeatherRepo /\ UNCHANGED <<confVars, simVars, btVars, rnVars, twVars, scVars, wsVars, mhVars, oeVars>>
    \/ FetchWeatherAwaitable /\ UNCHANGED <<confVars, simVars, btVars, rnVars, twVars, scVars, wsVars, mhVars, oeVars>>
    \/ FetchNewsRepo /\ UNCHANGED <<confVars, simVars, btVars, rnVars, twVars, scVars, wsVars, mhVars, oeVars>>
    \/ FetchNewsAwaitable /\ UNCHANGED <<confVars, simVars, btVars, rnVars, twVars, scVars, wsVars, mhVars, oeVars>>
Spec == Init /\ [][Next]_vars

\* _calculate_confidence as a function of its argument.
InitConfidence == StrategyIdle /\ ConfInit /\ SimIdle /\ BtIdle /\ RnIdle /\ TwIdle /\ ScIdle /\ WsIdle /\ MhIdle /\ OeIdle
NextConfidence == ApplyConfidence /\ UNCHANGED <<stratVars, simVars, btVars, rnVars, twVars, scVars, wsVars, mhVars, oeVars>>
SpecConfidence == InitConfidence /\ [][NextConfidence]_vars

\* _simulate_trade as a function of its arguments and the configuration.
InitSimulate == StrategyIdle /\ ConfIdle /\ SimInit /\ BtIdle /\ RnIdle /\ TwIdle /\ ScIdle /\ WsIdle /\ MhIdle /\ OeIdle
NextSimulate == ApplySimulateTrade /\ UNCHANGED <<stratVars, confVars, btVars, rnVars, twVars, scVars, wsVars, mhVars, oeVars>>
SpecSimulate == InitSimulate /\ [][NextSimulate]_vars

\* One call of run on a fresh Backtest.
InitBacktest == StrategyIdle /\ ConfIdle /\ SimIdle /\ BtInit /\ RnIdle /\ TwIdle /\ ScIdle /\ WsIdle /\ MhIdle /\ OeIdle
NextBacktest ==
    \/ BtRequest /\ UNCHANGED <<stratVars, confVars, simVars, rnVars, twVars, scVars, wsVars, mhVars, oeVars>>
    \/ BtResume /\ UNCHANGED <<stratVars, confVars, simVars, rnVars, twVars, scVars, wsVars, mhVars, oeVars>>
    \/ BtStrategyRaises /\ UNCHANGED <<stratVars, confVars, simVars, rnVars, twVars, scVars, wsVars, mhVars, oeVars>>
    \/ BtReturn /\ UNCHANGED <<stratVars, confVars, simVars, rnVars, twVars, scVars, wsVars, mhVars, oeVars>>
    \/ BtMetrics /\ UNCHANGED <<stratVars, confVars, simVars, rnVars, twVars, scVars, wsVars, mhVars, oeVars>>
SpecBacktest == InitBacktest /\ [][NextBacktest]_vars

\* Two calls of run on one Backtest, one after the other or interleaved at
\* their awaits.
InitRuns == StrategyIdle /\ ConfIdle /\ SimIdle /\ BtIdle /\ RnInit /\ TwIdle /\ ScIdle /\ WsIdle /\ MhIdle /\ OeIdle
NextRuns ==
    \/ \E r \in Runs : RnCall(r) /\ UNCHANGED <<stratVars, confVars, simVars, btVars, twVars, scVars, wsVars, mhVars, oeVars>>
    \/ \E r \in Runs : RnResume(r) /\ UNCHANGED <<stratVars, confVars, simVars, btVars, twVars, scVars, wsVars, mhVars, oeVars>>
    \/ \E r \in Runs : RnStrategyRaises(r) /\ UNCHANGED <<stratVars, confVars, simVars, btVars, twVars, scVars, wsVars, mhVars, oeVars>>
SpecRuns == InitRuns /\ [][NextRuns]_vars

\* generate_signal called twice with one record, the providers answering
\* the second call as they answered the first.
InitTwice == StrategyInit /\ market_data \in TwiceRecords /\ ConfIdle /\ SimIdle /\ BtIdle /\ RnIdle /\ TwIdle /\ ScIdle /\ WsIdle /\ MhIdle /\ OeIdle
NextTwice ==
    \/ Start /\ UNCHANGED <<twVars, confVars, simVars, btVars, rnVars, scVars, wsVars, mhVars, oeVars>> /\ SameScores'
    \/ CallSentiment /\ UNCHANGED <<twVars, confVars, simVars, btVars, rnVars, scVars, wsVars, mhVars, oeVars>> /\ SameScores'
    \/ CallChatGPT /\ UNCHANGED <<twVars, confVars, simVars, btVars, rnVars, scVars, wsVars, mhVars, oeVars>> /\ SameScores'
    \/ FetchWeatherRepo /\ UNCHANGED <<twVars, confVars, simVars, btVars, rnVars, scVars, wsVars, mhVars, oeVars>> /\ SameScores'
    \/ FetchWeatherAwaitable /\ UNCHANGED <<twVars, confVars, simVars, btVars, rnVars, scVars, wsVars, mhVars, oeVars>> /\ SameScores'
    \/ FetchNewsRepo /\ UNCHANGED <<twVars, confVars, simVars, btVars, rnVars, scVars, wsVars, mhVars, oeVars>> /\ SameScores'
    \/ FetchNewsAwaitable /\ UNCHANGED <<twVars, confVars, simVars, btVars, rnVars, scVars, wsVars, mhVars, oeVars>> /\ SameScores'
    \/ CallAgain /\ UNCHANGED <<confVars, simVars, btVars, rnVars, scVars, wsVars, mhVars, oeVars>>
SpecTwice == InitTwice /\ [][NextTwice]_vars

\* The synchronous scorers as functions of the record.
InitScorers == StrategyIdle /\ ConfIdle /\ SimIdle /\ BtIdle /\ RnIdle /\ TwIdle /\ ScInit /\ WsIdle /\ MhIdle /\ OeIdle
NextScorers == ApplyScorers /\ UNCHANGED <<stratVars, confVars, simVars, btVars, rnVars, twVars, wsVars, mhVars, oeVars>>
SpecScorers == InitScorers /\ [][NextScorers]_vars

\* A WebsocketClient, its caller and its message loop.
InitWebsocket == StrategyIdle /\ ConfIdle /\ SimIdle /\ BtIdle /\ RnIdle /\ TwIdle /\ ScIdle /\ WsInit /\ MhIdle /\ OeIdle
NextWebsocket ==
    \/ WsConnect /\ UNCHANGED <<stratVars, confVars, simVars, btVars, rnVars, twVars, scVars, mhVars, oeVars>>
    \/ WsDisconnect /\ UNCHANGED <<stratVars, confVars, simVars, btVars, rnVars, twVars, scVars, mhVars, oeVars>>
    \/ WsDisconnectEnd /\ UNCHANGED <<stratVars, confVars, simVars, btVars, rnVars, twVars, scVars, mhVars, oeVars>>
    \/ WsSubscribe /\ UNCHANGED <<stratVars, confVars, simVars, btVars, rnVars, twVars, scVars, mhVars, oeVars>>
    \/ WsRunCalled /\ UNCHANGED <<stratVars, confVars, simVars, btVars, rnVars, twVars, scVars, mhVars, oeVars>>
    \/ WsRecv /\ UNCHANGED <<stratVars, confVars, simVars, btVars, rnVars, twVars, scVars, mhVars, oeVars>>
    \/ WsHandle /\ UNCHANGED <<stratVars, confVars, simVars, btVars, rnVars, twVars, scVars, mhVars, oeVars>>
    \/ WsServerCloses /\ UNCHANGED <<stratVars, confVars, simVars, btVars, rnVars, twVars, scVars, mhVars, oeVars>>
SpecWebsocket == InitWebsocket /\ [][NextWebsocket]_vars

\* A MarketDataHandler under any sequence of its three operations.
InitHandler == StrategyIdle /\ ConfIdle /\ SimIdle /\ BtIdle /\ RnIdle /\ TwIdle /\ ScIdle /\ WsIdle /\ MhInit /\ OeIdle
NextHandler ==
    \/ RegisterCallback /\ UNCHANGED <<stratVars, confVars, simVars, btVars, rnVars, twVars, scVars, wsVars, oeVars>>
    \/ UnregisterCallback /\ UNCHANGED <<stratVars, confVars, simVars, btVars, rnVars, twVars, scVars, wsVars, oeVars>>
    \/ ProcessMarketData /\ UNCHANGED <<stratVars, confVars, simVars, btVars, rnVars, twVars, scVars, wsVars, oeVars>>
SpecHandler == InitHandler /\ [][NextHandler]_vars

\* One call of OrderExecutor.execute_order.
InitOrders == StrategyIdle /\ ConfIdle /\ SimIdle /\ BtIdle /\ RnIdle /\ TwIdle /\ ScIdle /\ WsIdle /\ MhIdle /\ OeInit
NextOrders == ExecuteOrder /\ UNCHANGED <<stratVars, confVars, simVars, btVars, rnVars, twVars, scVars, wsVars, mhVars>>
SpecOrders == InitOrders /\ [][NextOrders]_vars

(***************************************************************************)
(* Claims about generate_signal (Spec)                                     *)
(***************************************************************************)
LacksRequiredField == \E f \in {"symbol", "price", "timestamp"} : f \notin DOMAIN market_data

\* C1: in both strategies, generate_signal on a record that lacks symbol,
\* price or timestamp returns signal 0.0 and confidence 0.0, raises nothing
\* and calls no provider.
C1_InvalidRecordIsNeutral ==
    (LacksRequiredField /\ pc # "start") =>
        /\ pc = "returned"
        /\ exc = "none"
        /\ result.signal = Zero
        /\ result.confidence = Zero
        /\ calls = {}

C1_Witness ==
    /\ pc = "returned"
    /\ variant = "options"
    /\ "price" \notin DOMAIN market_data
    /\ "symbol" \in DOMAIN market_data
    /\ result.signal = Zero
    /\ result.symbol = "TEST"

\* C2 (as claimed): when one provider call fails, generate_signal does not
\* raise, and the result it returns holds 0.0 for the provider that failed.
\* Stated for awaitable fetchers, where no await fails by itself (see C3).
C2_ProviderFailureIsNeutral ==
    (Cardinality(failed) = 1 /\ weather_fetcher = "awaitable" /\ news_fetcher = "awaitable") =>
        /\ pc # "raised"
        /\ (pc = "returned" /\ variant = "futures") =>
              \A p \in failed : result.metadata.signals[p] = Zero

\* C3 (as claimed): with the repository's fetchers, a valid record and no
\* failing provider, generate_signal ends by returning a result for the
\* record's symbol.
C3_ValidRecordReturns ==
    (/\ ~LacksRequiredField
     /\ weather_fetcher = "repo"
     /\ news_fetcher = "repo"
     /\ failed = {}
     /\ pc \in {"returned", "raised"}) =>
        /\ pc = "returned"
        /\ result.symbol = market_data["symbol"]

C5_SignalIsUnweightedMean ==
    (pc = "returned" /\ "signals" \in DOMAIN result.metadata) =>
        LET scores == result.metadata.signals
            n == Cardinality(DOMAIN scores)
            total == SumOver(scores, DOMAIN scores)
        IN  /\ n = (IF variant = "futures" THEN 5 ELSE 3)
            /\ \/ InUnit(result.signal) /\ FMul(result.signal, OfInt(n)) = total
               \/ result.signal = One /\ FGt(total, OfInt(n))
               \/ result.signal = MinusOne /\ FLt(total, OfInt(-n))

C5_Witness ==
    /\ pc = "returned"
    /\ variant = "futures"
    /\ "signals" \in DOMAIN result.metadata
    /\ result.metadata.signals["technical"] = Rat(84, 100)
    /\ result.metadata.signals["weather"] = Rat(-5, 10)
    /\ result.signal # Zero

(***************************************************************************)
(* Claims about _calculate_confidence (SpecConfidence)                     *)
(***************************************************************************)
\* C6: _calculate_confidence gives 0.0 for an empty SignalSet and otherwise
\* 1 - min(v, 1), v being the population variance (here as the mean of the
\* squares less the square of the mean); equal scores give 1.0 and scores
\* in [-1, 1] give a value in [0, 1].
C6_ConfidenceRule ==
    cf_done =>
        LET ks == DOMAIN cf_signals
            n == Cardinality(ks)
            sum1 == SumOver(cf_signals, ks)
            sum2 == SumOver([k \in ks |-> FMul(cf_signals[k], cf_signals[k])], ks)
            v == FSub(FDiv(sum2, OfInt(n)), FMul(FDiv(sum1, OfInt(n)), FDiv(sum1, OfInt(n))))
        IN  /\ (n = 0) => (cf_out = Zero)
            /\ (n > 0) => (cf_out = IF FLt(v, One) THEN FSub(One, v) ELSE Zero)
            /\ (n > 0 /\ \A j, k \in ks : cf_signals[j] = cf_signals[k]) => (cf_out = One)
            /\ (n > 0 /\ \A k \in ks : InUnit(cf_signals[k])) => In01(cf_out)

C6_Witness ==
    /\ cf_done
    /\ Cardinality(DOMAIN cf_signals) = 3
    /\ \A k \in DOMAIN cf_signals : InUnit(cf_signals[k])
    /\ FLt(Zero, cf_out)
    /\ FLt(cf_out, One)

(***************************************************************************)
(* Claims about _simulate_trade (SpecSimulate)                             *)
(***************************************************************************)
SimThreshold == IF "min_signal_threshold" \in DOMAIN sim_config
                THEN sim_config["min_signal_threshold"] ELSE Rat(2, 10)
SimBelowThreshold == FLt(FNeg(SimThreshold), sim_signal) /\ FLt(sim_signal, SimThreshold)
SimAtThreshold == FGe(sim_signal, SimThreshold) \/ FLe(sim_signal, FNeg(SimThreshold))

\* C7: _simulate_trade gives hold exactly when |signal| < min_signal_threshold
\* (default 0.2), then with size 0 and the record's price; hold iff size 0
\* and |signal| < min_signal_threshold.
C7_HoldBelowThreshold ==
    (sim_done /\ sim_out.ok) =>
        LET trade == sim_out.val
        IN  /\ (trade.action = "hold") <=> SimBelowThreshold
            /\ (trade.action = "hold") => (trade.size = Zero /\ trade.price = sim_data["price"])
            /\ (trade.action = "hold") <=> (trade.size = Zero /\ SimBelowThreshold)

C7_Witness ==
    /\ sim_done
    /\ sim_out.ok
    /\ sim_signal = Rat(15, 100)
    /\ sim_config = EmptyDict
    /\ sim_out.val.action = "hold"
    /\ sim_out.val.size = Zero

\* C8: at or above the threshold the action is buy for a positive signal and
\* sell otherwise, the size is trade_size (default 1.0) and the price is the
\* record's price times 1 + slippage (buy) or 1 - slippage (sell), slippage
\* 0.001 by default: signal 0.5 at price 100 buys at 100.1.
C8_TradeAtThreshold ==
    (sim_done /\ sim_out.ok /\ SimAtThreshold) =>
        LET trade == sim_out.val
            slip == IF "slippage" \in DOMAIN sim_config THEN sim_config["slippage"] ELSE Rat(1, 1000)
            size == IF "trade_size" \in DOMAIN sim_config THEN sim_config["trade_size"] ELSE One
            p == sim_data["price"]
        IN  /\ trade.action = IF FGt(sim_signal, Zero) THEN "buy" ELSE "sell"
            /\ trade.size = size
            /\ trade.action = "buy" => trade.price = FAdd(p, FMul(p, slip))
            /\ trade.action = "sell" => trade.price = FSub(p, FMul(p, slip))
            /\ (sim_signal = Rat(5, 10) /\ p = OfInt(100) /\ slip = Rat(1, 1000)) =>
                  (trade.action = "buy" /\ trade.price = Rat(1001, 10))

C8_Witness ==
    /\ sim_done
    /\ sim_out.ok
    /\ sim_signal = Rat(-6, 10)
    /\ sim_out.val.action = "sell"
    /\ sim_out.val.price = OfInt(99)
    /\ sim_out.val.size = OfInt(2)

(***************************************************************************)
(* Claims about Backtest.run (SpecBacktest)                                *)
(***************************************************************************)
\* C9: run handles the records in input order, one at a time: the i-th result
\* carries the timestamp, symbol and price of the i-th record, and the signal
\* of a record is requested only when the results of all records before it
\* have been appended.
C9_InputOrder ==
    /\ Len(bt_results) <= Len(bt_data)
    /\ \A i \in 1..Len(bt_results) :
          /\ bt_results[i].timestamp = bt_data[i]["timestamp"]
          /\ bt_results[i].symbol = bt_data[i]["symbol"]
          /\ bt_results[i].price = bt_data[i]["price"]
    /\ \A k \in 1..Len(bt_requests) : bt_requests[k] = k
    /\ Len(bt_requests) \in {Len(bt_results), Len(bt_results) + 1}
    /\ (bt_pc \in {"loop", "done"}) => (Len(bt_requests) = Len(bt_results))

\* A completed run over three records whose timestamps go down.
C9_Witness ==
    /\ bt_pc = "done"
    /\ Len(bt_results) = 3
    /\ FGt(bt_data[1]["timestamp"], bt_data[2]["timestamp"])
    /\ bt_results[1].timestamp = OfInt(2)
    /\ bt_results[2].timestamp = OfInt(1)

\* C10 (as claimed): a failure while handling one record does not abort the
\* run, which ends with one result for every input record.
C10_RunIsFailSoft ==
    /\ bt_pc # "raised"
    /\ (bt_pc = "done") => (Len(bt_results) = Len(bt_data))

(***************************************************************************)
(* Claims about repeated calls of run (SpecRuns)                           *)
(***************************************************************************)
\* C11 (as claimed): a call of run returns one record for every data point
\* passed to that call and only records that call appended, also when it is
\* the second call on the instance or interleaved with another call, and
\* the sequence it returned is not changed by another call.
C11_RunOwnsItsResults ==
    \A r \in Runs :
        (rn_pc[r] = "done") =>
            /\ Len(rn_returned[r]) = Len(rn_data[r])
            /\ \A k \in 1..Len(rn_returned[r]) : rn_owner[k] = r
            /\ rn_results = rn_returned[r]

(***************************************************************************)
(* Claims about run and calculate_metrics (SpecBacktest)                   *)
(***************************************************************************)
BtThreshold == GetOr(bt_config, "min_signal_threshold", Rat(2, 10))
BtIsTrade(i) == bt_results[i].trade_result.action # "hold"
BtMetricsReported == bt_metrics # NoneVal /\ bt_results # <<>>

\* C12: after a run, the number of results whose action is not hold is the
\* number of records whose signal has |signal| >= min_signal_threshold
\* (signals 0.5, -0.6, 0.1 with threshold 0.2 give 2), and the total_trades
\* that calculate_metrics reports is that number.
C12_TradesCountSignals ==
    (bt_pc = "done") =>
        LET trades == { i \in 1..Len(bt_results) : BtIsTrade(i) }
            strong == { i \in 1..Len(bt_data) : FGe(FAbs(bt_results[i].signal), BtThreshold) }
        IN  /\ Len(bt_results) = Len(bt_data)
            /\ Cardinality(trades) = Cardinality(strong)
            /\ (/\ Len(bt_results) = 3
                /\ bt_results[1].signal = Rat(5, 10)
                /\ bt_results[2].signal = Rat(-6, 10)
                /\ bt_results[3].signal = Rat(1, 10)
                /\ BtThreshold = Rat(2, 10)) => (Cardinality(trades) = 2)
            /\ BtMetricsReported =>
                  (bt_metrics.ok /\ bt_metrics.val.total_trades = Cardinality(strong))

C12_Witness ==
    /\ bt_pc = "done"
    /\ Len(bt_results) = 3
    /\ bt_results[1].signal = Rat(5, 10)
    /\ bt_results[2].signal = Rat(-6, 10)
    /\ bt_results[3].signal = Rat(1, 10)
    /\ BtThreshold = Rat(2, 10)
    /\ bt_metrics # NoneVal
    /\ bt_metrics.val.total_trades = 2

\* C14: the win_rate that calculate_metrics reports is the number of winning
\* trades divided by total_trades, and 0 when total_trades is 0; a winning
\* trade is a buy whose record price is above the executed price or a sell
\* whose record price is below it, never a hold; so win_rate is in [0, 1].
C14_WinRate ==
    BtMetricsReported =>
        LET m == bt_metrics.val
            wins == { i \in 1..Len(bt_results) :
                        LET trade == bt_results[i].trade_result
                        IN  \/ trade.action = "buy" /\ FGt(bt_results[i].price, trade.price)
                            \/ trade.action = "sell" /\ FLt(bt_results[i].price, trade.price) }
        IN  /\ bt_metrics.ok
            /\ (m.total_trades = 0) => (m.win_rate = Zero)
            /\ (m.total_trades > 0) => (m.win_rate = Rat(Cardinality(wins), m.total_trades))
            /\ \A i \in wins : BtIsTrade(i)
            /\ In01(m.win_rate)

\* A buy and a sell that both won next to a hold.
C14_Witness ==
    /\ BtMetricsReported
    /\ Len(bt_results) = 3
    /\ bt_results[1].trade_result.action = "buy"
    /\ bt_results[2].trade_result.action = "hold"
    /\ bt_results[3].trade_result.action = "sell"
    /\ bt_metrics.val.win_rate = One
    /\ bt_metrics.val.total_trades = 2

\* C15: the avg_return that calculate_metrics reports is the sum of the
\* returns of all records divided by their number, the return of a buy or
\* sell being (record price - executed price) / executed price, negated for
\* a sell, and the return of a hold being 0.
C15_AverageReturn ==
    BtMetricsReported =>
        LET ret(i) ==
                LET trade == bt_results[i].trade_result
                    gain == FDiv(FSub(bt_results[i].price, trade.price), trade.price)
                IN  IF trade.action = "buy" THEN gain
                    ELSE IF trade.action = "sell" THEN FNeg(gain)
                    ELSE Zero
        IN  /\ bt_metrics.ok
            /\ FMul(bt_metrics.val.avg_return, OfInt(Len(bt_results)))
                  = SumSeq([i \in 1..Len(bt_results) |-> ret(i)])

\* A buy at a quarter above the price and a hold: the mean of -1/5 and 0.
C15_Witness ==
    /\ BtMetricsReported
    /\ Len(bt_results) = 2
    /\ bt_results[1].trade_result.action = "buy"
    /\ bt_results[2].trade_result.action = "hold"
    /\ bt_metrics.val.avg_return = Rat(-1, 10)

C17_NoResultsNoMetrics ==
    (bt_metrics # NoneVal /\ bt_results = <<>>) =>
        /\ bt_metrics.ok
        /\ DOMAIN bt_metrics.val = {}

C17_Witness ==
    /\ bt_pc = "done"
    /\ bt_data = <<>>
    /\ bt_results = <<>>
    /\ bt_metrics # NoneVal
    /\ bt_metrics.exc = "none"

\* C18: for a non-empty result sequence whose actions are all hold,
\* calculate_metrics returns total_trades 0, win_rate 0, sharpe_ratio 0,
\* avg_return 0 and total_profit_loss 0.
C18_AllHoldMetrics ==
    (BtMetricsReported /\ \A i \in 1..Len(bt_results) : ~BtIsTrade(i)) =>
        /\ bt_metrics.ok
        /\ bt_metrics.val.total_trades = 0
        /\ bt_metrics.val.win_rate = Zero
        /\ bt_metrics.val.sharpe_ratio = Zero
        /\ bt_metrics.val.avg_return = Zero
        /\ bt_metrics.val.total_profit_loss = Zero

C18_Witness ==
    /\ BtMetricsReported
    /\ Len(bt_results) = 3
    /\ \A i \in 1..3 : bt_results[i].trade_result.action = "hold"
    /\ bt_results[1].signal = Rat(1, 10)
    /\ bt_config = [slippage |-> Rat(1, 4)]
    /\ bt_metrics.val.total_trades = 0

(***************************************************************************)
(* A claim about malformed signals (SpecSimulate)                          *)
(***************************************************************************)
\* C13 (as claimed): _simulate_trade with a NaN signal raises nothing and
\* gives hold with size 0.
C13_NaNSignalHolds ==
    (sim_done /\ IsNaN(sim_signal) /\ Has(sim_data, "price")) =>
        /\ sim_out.ok
        /\ sim_out.val.action = "hold"
        /\ sim_out.val.size = Zero

(***************************************************************************)
(* Claims about the results of generate_signal (SpecTwice, Spec)           *)
(***************************************************************************)
\* C19 (as claimed): the second of two calls of generate_signal with the
\* same record and the same provider scores returns a result equal to the
\* first in every field: timestamp, symbol, signal, confidence, metadata.
C19_SecondCallIdentical ==
    (tw_first # NoneVal /\ pc = "returned") => (result = tw_first.result)

\* C20 (as claimed): in both strategies the neutral result for a record
\* that fails validation has a metadata mapping, not None and not empty,
\* that flags the failure.
C20_NeutralResultIsFlagged ==
    (LacksRequiredField /\ pc = "returned") =>
        /\ result.metadata # NoneVal
        /\ "error" \in DOMAIN result.metadata

\* C21 (as claimed): generate_signal treats a record whose price is zero,
\* negative or not a number as a validation failure: it returns the neutral
\* result and calls no provider.
C21_BadPriceIsNeutral ==
    (/\ ~LacksRequiredField
     /\ ~FGt(market_data["price"], Zero)
     /\ pc # "start") =>
        /\ pc = "returned"
        /\ result.signal = Zero
        /\ result.confidence = Zero
        /\ calls = {}

\* C22 (as claimed): while generate_signal waits for one provider (pc names
\* the provider whose await is pending), every provider that has not been
\* called yet can start and complete, and a result with a SignalSet is
\* returned only when all providers of the strategy have completed.
C22_ProvidersIndependent ==
    /\ (pc = "sentiment") =>
          /\ ENABLED CallChatGPT
          /\ ENABLED (FetchWeatherRepo \/ FetchWeatherAwaitable)
          /\ ENABLED (FetchNewsRepo \/ FetchNewsAwaitable)
    /\ (pc = "chatgpt") =>
          /\ ENABLED (FetchWeatherRepo \/ FetchWeatherAwaitable)
          /\ ENABLED (FetchNewsRepo \/ FetchNewsAwaitable)
    /\ (pc = "weather" /\ variant = "futures") => ENABLED (FetchNewsRepo \/ FetchNewsAwaitable)
    /\ (pc = "returned" /\ "signals" \in DOMAIN result.metadata) =>
          calls = (IF variant = "futures" THEN Providers ELSE {"weather"})

(***************************************************************************)
(* Claims about profit and loss (SpecBacktest)                             *)
(***************************************************************************)
BtSlippage == GetOr(bt_config, "slippage", Rat(1, 1000))

\* C23: the profit_loss of a record is 0 for hold and otherwise (record
\* price - executed price) * size, negated for a sell, and the
\* total_profit_loss that calculate_metrics reports is the sum of the
\* profit_loss of all records.
C23_ProfitLoss ==
    /\ \A i \in 1..Len(bt_results) :
          LET rec == bt_results[i]
              trade == rec.trade_result
              gross == FMul(FSub(rec.price, trade.price), trade.size)
          IN  /\ (trade.action = "hold") => (rec.profit_loss = Zero)
              /\ (trade.action = "buy") => (rec.profit_loss = gross)
              /\ (trade.action = "sell") => (rec.profit_loss = FNeg(gross))
    /\ BtMetricsReported =>
          /\ bt_metrics.ok
          /\ bt_metrics.val.total_profit_loss
                = SumSeq([i \in 1..Len(bt_results) |-> bt_results[i].profit_loss])

\* At a slippage of a quarter: a sell of the record at 100 executed at 75
\* and a buy of the record at 50 executed at 62.5.
C23_Witness ==
    /\ BtMetricsReported
    /\ Len(bt_results) = 2
    /\ bt_results[1].trade_result.action = "sell"
    /\ bt_results[1].price = OfInt(100)
    /\ bt_results[1].profit_loss = OfInt(-25)
    /\ bt_results[2].trade_result.action = "buy"
    /\ bt_results[2].price = OfInt(50)
    /\ bt_metrics.val.total_profit_loss = Rat(-75, 2)

WithoutIndicators(data, ks) ==
    [data EXCEPT !["indicators"] = Restrict(@, (DOMAIN @) \ ks)]
InRsiBand(x) == FLe(Rat(3, 10), x) /\ FLe(x, Rat(5, 10))

\* C25: in both strategies the RSI adds to the technical score a value in
\* [-0.5, -0.3] when RSI > 70, a value in [0.3, 0.5] when RSI < 30 and 0
\* otherwise, RSI 30 and 70 included; RSI 85 alone scores <= -0.3 and RSI 50
\* alone scores 0; the volume adjustment (x1.2) and the volatility
\* adjustment (x0.8) multiply the score and add nothing.
C25_RsiContribution ==
    (sc_done /\ Has(sc_data, "indicators")) =>
        LET ind == sc_data["indicators"]
            plain == WithoutIndicators(sc_data, {"volume", "volatility"})
            norsi == WithoutIndicators(sc_data, {"volume", "volatility", "rsi"})
            futures_rsi == FSub(FuturesTechnical(plain), FuturesTechnical(norsi))
            options_rsi == FSub(OptionsTechnical(plain), OptionsTechnical(norsi))
            overbought == Has(ind, "rsi") /\ FGt(ind["rsi"], OfInt(70))
            oversold == Has(ind, "rsi") /\ FLt(ind["rsi"], OfInt(30))
        IN  /\ overbought => (InRsiBand(FNeg(futures_rsi)) /\ InRsiBand(FNeg(options_rsi)))
            /\ oversold => (InRsiBand(futures_rsi) /\ InRsiBand(options_rsi))
            /\ (~overbought /\ ~oversold) => (futures_rsi = Zero /\ options_rsi = Zero)
            /\ (ind = [rsi |-> OfInt(85)]) =>
                  /\ FLe(sc_out.futures_technical, Rat(-3, 10))
                  /\ FLe(sc_out.options_technical, Rat(-3, 10))
            /\ (ind = [rsi |-> OfInt(50)]) =>
                  (sc_out.futures_technical = Zero /\ sc_out.options_technical = Zero)
            /\ sc_out.futures_technical \in
                  { FuturesTechnical(plain), Clamp(FMul(FuturesTechnical(plain), Rat(12, 10))) }
            /\ sc_out.options_technical \in
                  { OptionsTechnical(plain), FMul(OptionsTechnical(plain), Rat(8, 10)) }

\* RSI 85 with a MACD above 0 and both adjustments applied.
C25_Witness ==
    /\ sc_done
    /\ Has(sc_data, "indicators")
    /\ Has(sc_data["indicators"], "rsi")
    /\ sc_data["indicators"]["rsi"] = OfInt(85)
    /\ Has(sc_data["indicators"], "macd")
    /\ sc_out.futures_technical = Rat(-12, 100)
    /\ sc_out.options_technical = Rat(-8, 100)

\* C26 (as claimed): _analyze_options_metrics gives the sum of -0.3 or +0.3
\* for an iv_percentile above 80 or below 20 and of -0.4 or +0.4 for a
\* put_call_ratio above 1.5 or below 0.5, times 1.2 when open_interest is
\* above 1.5 times average_oi, cut to [-1, 1], for every options_metrics
\* mapping, with or without the keys iv and average_oi.
C26_OptionsMetricsRule ==
    sc_done =>
        LET metrics == GetOr(sc_data, "options_metrics", EmptyDict)
            iv_part == IF Has(metrics, "iv_percentile") /\ FGt(metrics["iv_percentile"], OfInt(80))
                       THEN Rat(-3, 10)
                       ELSE IF Has(metrics, "iv_percentile") /\ FLt(metrics["iv_percentile"], OfInt(20))
                       THEN Rat(3, 10)
                       ELSE Zero
            ratio_part == IF Has(metrics, "put_call_ratio") /\ FGt(metrics["put_call_ratio"], Rat(15, 10))
                          THEN Rat(-4, 10)
                          ELSE IF Has(metrics, "put_call_ratio") /\ FLt(metrics["put_call_ratio"], Rat(5, 10))
                          THEN Rat(4, 10)
                          ELSE Zero
            amplified == /\ Has(metrics, "open_interest")
                         /\ Has(metrics, "average_oi")
                         /\ FGt(metrics["open_interest"], FMul(metrics["average_oi"], Rat(15, 10)))
            total == FAdd(iv_part, ratio_part)
        IN  sc_out.options_metrics = Clamp(IF amplified THEN FMul(total, Rat(12, 10)) ELSE total)

WsConnected == ws_websocket # NoneVal /\ ws_keep_running
WsNotConnected == ws_websocket = NoneVal /\ ~ws_keep_running

C28_RoutedByType ==
    /\ \A i \in 1..Len(ws_log) : \A j \in 1..Len(ws_log) :
           i < j => ws_log[i].position < ws_log[j].position
    /\ \A i \in 1..Len(ws_log) :
           ws_log[i].handler = (IF ws_log[i].type = "market_data" THEN "market_data_handler"
                                ELSE IF ws_log[i].type = "order_update" THEN "order_handler"
                                ELSE "none")

\* C29: the registry of a MarketDataHandler maps each symbol to at most one
\* callback, the one registered last; process_market_data invokes exactly the
\* callback registered for the symbol of the record, and none when the record
\* lacks symbol, price or timestamp or when nothing is registered for that
\* symbol; unregistering an unknown symbol changes nothing; processing never
\* raises, also when the callback does, and leaves the registry as it was.
C29_RegistryAndDispatch ==
    /\ DOMAIN mh_callbacks \subseteq MhSymbols
    /\ \A s \in DOMAIN mh_callbacks : mh_callbacks[s] \in MhCallbacks
    /\ mh_call # NoneVal =>
          /\ mh_call.raised = "none"
          /\ mh_call.op = "register_callback" =>
                /\ DOMAIN mh_callbacks = DOMAIN mh_call.before \cup {mh_call.symbol}
                /\ mh_callbacks[mh_call.symbol] = mh_call.callback
                /\ \A s \in DOMAIN mh_call.before \ {mh_call.symbol} :
                       mh_callbacks[s] = mh_call.before[s]
          /\ mh_call.op = "unregister_callback" =>
                /\ ~Has(mh_callbacks, mh_call.symbol)
                /\ ~Has(mh_call.before, mh_call.symbol) => mh_callbacks = mh_call.before
                /\ \A s \in DOMAIN mh_call.before \ {mh_call.symbol} :
                       Has(mh_callbacks, s) /\ mh_callbacks[s] = mh_call.before[s]
          /\ mh_call.op = "process_market_data" =>
                /\ mh_callbacks = mh_call.before
                /\ mh_call.invoked =
                      (IF /\ MhRequiredFields \subseteq DOMAIN mh_call.market_data
                          /\ mh_call.market_data["symbol"] \in DOMAIN mh_call.before
                       THEN <<mh_call.before[mh_call.market_data["symbol"]]>>
                       ELSE <<>>)

C29_Witness ==
    /\ mh_call # NoneVal
    /\ mh_call.op = "process_market_data"
    /\ mh_call.callback_raises
    /\ mh_call.invoked = <<"on_quote">>
    /\ DOMAIN mh_callbacks = MhSymbols

\* C30: execute_order raises, and so never reports 'filled', for an order that
\* lacks symbol, action, size or price or whose size is greater than the
\* configured max_order_size (no limit when it is not configured); for every
\* other order it returns status 'filled' with the order's own symbol, action,
\* price and size as the executed values.
C30_FilledOnlyWhenValid ==
    oe_done =>
       IF \/ ~(OrderRequiredFields \subseteq DOMAIN oe_order)
          \/ ("max_order_size" \in DOMAIN oe_config /\ oe_order["size"] > oe_config["max_order_size"])
       THEN ~oe_out.ok /\ oe_out.exc = "ValueError"
       ELSE /\ oe_out.ok
            /\ oe_out.val.status = "filled"
            /\ oe_out.val.symbol = oe_order["symbol"]
            /\ oe_out.val.action = oe_order["action"]
            /\ oe_out.val.executed_price = oe_order["price"]
            /\ oe_out.val.executed_size = oe_order["size"]

C30_Witness ==
    /\ oe_done
    /\ oe_out.ok
    /\ "max_order_size" \in DOMAIN oe_config
    /\ oe_out.val.executed_size = oe_config["max_order_size"]

====
